---- MODULE Spec2Model ----
(***************************************************************************)
(* Model of the Mealy-automaton engine of automata-builder.                *)
(*                                                                         *)
(*   automata_builder/core/automata.py  class Automata (current package)   *)
(*   automata.py                        class Automata (first version)     *)
(*                                                                         *)
(* A symbol is a one-character string, a word is a sequence of symbols,    *)
(* and "" is the value Python code uses for "not set".  A Python dict is   *)
(* a sequence of key/value records in insertion order when the order of    *)
(* its keys is observable (the alphabets), and a function otherwise (the   *)
(* tables).  An exception is the name of its type in the field exc of a    *)
(* result, "" meaning a normal return.                                     *)
(***************************************************************************)
EXTENDS Naturals, Sequences, FiniteSets, TLC

VARIABLES
    states,            \* Automata.states
    initial_state_,    \* Automata.initial_state_
    inputs,            \* Automata.inputs   (dict symbol -> rank)
    outputs,           \* Automata.outputs  (dict symbol -> rank)
    transitions_,      \* Automata.transitions_      [state][symbol] -> state
    output_function_,  \* Automata.output_function_  [state][symbol] -> symbol
    pending,           \* the call about to be made: its arguments
    ret,               \* outcome of the last call
    calls              \* number of calls made on the object

vars == <<states, initial_state_, inputs, outputs, transitions_,
          output_function_, pending, ret, calls>>

(***************************************************************************)
(* Bounds and universes                                                    *)
(***************************************************************************)
MaxLen == 3          \* longest word read / enumerated
MaxCalls == 2        \* calls made on one constructed object
MaxEntries == 4      \* entries of one description, both maps together
MaxDigits == 3       \* digits asked of padic_to_geom
MaxLiteral == 3      \* largest integer literal of an expression
MaxWorkers == 3      \* workers one Tab creates

StateNames == {"A", "B"}
InSyms == {"0", "1"}
OutSyms == {"0", "1"}
Foreign == "2"       \* a character of no alphabet
ForeignState == "C"  \* a name that is never a state

Bases == {2, 3, 4}   \* bases handed to padic_to_geom

\* Python's order on the one-character strings used here (sorted()).
StrOrder == <<"", "0", "1", "2", "A", "B", "C">>

None == [none |-> TRUE]

\* b ** e
RECURSIVE Pow(_, _)
Pow(b, e) == IF e = 0 THEN 1 ELSE b * Pow(b, e - 1)

(***************************************************************************)
(* Sequences, dicts                                                        *)
(***************************************************************************)
Range(s) == {s[i] : i \in DOMAIN s}

SeqsUpTo(S, n) == UNION {[1..k -> S] : k \in 0..n}

NoDup(s) == \A i, j \in DOMAIN s : s[i] = s[j] => i = j

RECURSIVE Concat(_)
Concat(ss) == IF ss = <<>> THEN <<>> ELSE Head(ss) \o Concat(Tail(ss))

\* "".join(list of symbols): the empty string contributes no character.
join(list) == SelectSeq(list, LAMBDA c : c # "")

\* sorted(set of strings)
sorted(S) == SelectSeq(StrOrder, LAMBDA c : c \in S)

\* dict as insertion-ordered sequence of [k, v]
Keys(d) == [i \in DOMAIN d |-> d[i].k]
KeySet(d) == {d[i].k : i \in DOMAIN d}
Has(d, key) == key \in KeySet(d)
Get(d, key) == (CHOOSE i \in DOMAIN d : d[i].k = key)
GetV(d, key) == d[Get(d, key)].v

\* {smb: i for i, smb in enumerate(seq, 1)}: a repeated key keeps its first
\* position and takes its last value.
DictPut(d, key, val) ==
    IF Has(d, key)
    THEN [i \in DOMAIN d |-> IF d[i].k = key THEN [k |-> key, v |-> val] ELSE d[i]]
    ELSE Append(d, [k |-> key, v |-> val])

RECURSIVE Enumerate(_, _, _)
Enumerate(d, seq, i) ==
    IF seq = <<>> THEN d
    ELSE Enumerate(DictPut(d, Head(seq), i), Tail(seq), i + 1)

\* dict.fromkeys(keys, "")
fromkeys(keyset) == [k \in keyset |-> ""]

(***************************************************************************)
(* class Automata (automata_builder/core/automata.py)                      *)
(***************************************************************************)
Self == [states |-> states, initial_state_ |-> initial_state_,
         inputs |-> inputs, outputs |-> outputs,
         transitions_ |-> transitions_,
         output_function_ |-> output_function_]

Ok(self) == [exc |-> "", self |-> self]
Raise(e, self) == [exc |-> e, self |-> self]

\* the test of __init__ left out
\* Automata.__init__ raises for an initial state outside non-empty states
InitRaises(sts, initial_state) ==
    initial_state # "" /\ sts # {} /\ initial_state \notin sts

__init__(sts, initial_state, input_alphabet, output_alphabet) ==
    LET ins == Enumerate(<<>>, input_alphabet, 1)
        outs == Enumerate(<<>>, output_alphabet, 1)
    IN [states |-> sts, initial_state_ |-> initial_state,
        inputs |-> ins, outputs |-> outs,
        transitions_ |-> [s \in sts |-> fromkeys(KeySet(ins))],
        output_function_ |-> [s \in sts |-> fromkeys(KeySet(ins))]]

\* initial_state.setter
set_initial_state(self, state) ==
    IF state \notin self.states THEN Raise("ValueError", self)
    ELSE Ok([self EXCEPT !.initial_state_ = state])

\* reset_inputs_order with a slip: the ranks are updated in the existing
\* dict, which keeps its insertion order.
reset_inputs_order_InPlace(self, ordered) ==
    IF Len(ordered) # Len(self.inputs) THEN Raise("ValueError", self)
    ELSE IF (Range(ordered) \ KeySet(self.inputs))
              \cup (KeySet(self.inputs) \ Range(ordered)) # {}
         THEN Raise("ValueError", self)
         ELSE Ok([self EXCEPT !.inputs =
                    [i \in DOMAIN @ |->
                       [k |-> @[i].k,
                        v |-> CHOOSE j \in DOMAIN ordered : ordered[j] = @[i].k]]])

\* reset_inputs_order with a slip: the tables are built anew for the new
\* dict, as the constructor builds them
reset_inputs_order_Rebuild(self, ordered) ==
    IF Len(ordered) # Len(self.inputs) THEN Raise("ValueError", self)
    ELSE IF (Range(ordered) \ KeySet(self.inputs))
              \cup (KeySet(self.inputs) \ Range(ordered)) # {}
         THEN Raise("ValueError", self)
         ELSE Ok([self EXCEPT
                    !.inputs = Enumerate(<<>>, ordered, 1),
                    !.transitions_ = [s \in DOMAIN @ |-> fromkeys(Range(ordered))],
                    !.output_function_ = [s \in DOMAIN @ |-> fromkeys(Range(ordered))]])

\* Both tests of reset_inputs_order; reset_outputs_order compares the sets
\* with != instead of the symmetric difference.
reset_inputs_order(self, ordered) ==
    IF Len(ordered) # Len(self.inputs) THEN Raise("ValueError", self)
    ELSE IF (Range(ordered) \ KeySet(self.inputs))
              \cup (KeySet(self.inputs) \ Range(ordered)) # {}
         THEN Raise("ValueError", self)
         ELSE Ok([self EXCEPT !.inputs = Enumerate(<<>>, ordered, 1)])

\* reset_outputs_order with the comparison of the sets left out
reset_outputs_order_LengthOnly(self, ordered) ==
    IF Len(ordered) # Len(self.outputs) THEN Raise("ValueError", self)
    ELSE Ok([self EXCEPT !.outputs = Enumerate(<<>>, ordered, 1)])

reset_outputs_order(self, ordered) ==
    IF Len(ordered) # Len(self.outputs) THEN Raise("ValueError", self)
    ELSE IF Range(ordered) # KeySet(self.outputs)
         THEN Raise("ValueError", self)
         ELSE Ok([self EXCEPT !.outputs = Enumerate(<<>>, ordered, 1)])

\* dict.update({state: row}): the row of an existing state is replaced.
UpdateRow(table, state, row) ==
    [s \in (DOMAIN table) \cup {state} |-> IF s = state THEN row ELSE table[s]]

add_state(self, state) ==
    Ok([self EXCEPT
        !.states = @ \cup {state},
        !.transitions_ = UpdateRow(@, state, fromkeys(KeySet(self.inputs))),
        !.output_function_ = UpdateRow(@, state, fromkeys(KeySet(self.inputs)))])

\* row[symbol] = value on a dict row: adds the key when it is new.
SetCell(row, symbol, value) ==
    [k \in (DOMAIN row) \cup {symbol} |-> IF k = symbol THEN value ELSE row[k]]

add_input(self, symbol) ==
    IF Has(self.inputs, symbol) THEN Ok(self)
    ELSE Ok([self EXCEPT
        !.inputs = Append(@, [k |-> symbol, v |-> Len(self.inputs) + 1]),
        !.transitions_ = [s \in DOMAIN @ |-> SetCell(@[s], symbol, "")],
        !.output_function_ = [s \in DOMAIN @ |-> SetCell(@[s], symbol, "")]])

add_output(self, symbol) ==
    Ok([self EXCEPT !.outputs =
        DictPut(@, symbol, IF Has(@, symbol) THEN GetV(@, symbol) ELSE Len(@) + 1)])

\* Automata.__check__: "" when it returns no exception.  An argument that
\* is the empty string is not tested.
__check__(self, input_symbol, input_state, output_state, output_symbol) ==
    IF input_symbol # "" /\ ~Has(self.inputs, input_symbol) THEN "ValueError"
    ELSE IF input_state # "" /\ input_state \notin self.states THEN "ValueError"
    ELSE IF output_symbol # "" /\ ~Has(self.outputs, output_symbol) THEN "ValueError"
    ELSE IF output_state # "" /\ output_state \notin self.states THEN "ValueError"
    ELSE ""

add_to_transitions(self, input_symbol, input_state, output_state) ==
    LET exception == __check__(self, input_symbol, input_state, output_state, "")
    IN IF exception # "" THEN Raise(exception, self)
       ELSE IF input_state \notin DOMAIN self.transitions_
            THEN Raise("KeyError", self)
            ELSE Ok([self EXCEPT !.transitions_[input_state] =
                        SetCell(@, input_symbol, output_state)])

add_to_output_function(self, input_symbol, input_state, output_symbol) ==
    LET exception == __check__(self, input_symbol, input_state, "", output_symbol)
    IN IF exception # "" THEN Raise(exception, self)
       ELSE IF input_state \notin DOMAIN self.output_function_
            THEN Raise("KeyError", self)
            ELSE Ok([self EXCEPT !.output_function_[input_state] =
                        SetCell(@, input_symbol, output_symbol)])

\* table[state][symbol] raises KeyError for a missing key
HasKey(table, state, symbol) ==
    state \in DOMAIN table /\ symbol \in DOMAIN table[state]

transition(self, symbol, state) ==
    IF ~HasKey(self.transitions_, state, symbol)
       \/ ~HasKey(self.output_function_, state, symbol)
    THEN [exc |-> "KeyError", s |-> "", o |-> ""]
    ELSE [exc |-> "", s |-> self.transitions_[state][symbol],
          o |-> self.output_function_[state][symbol]]

\* has_in_transitions with a slip: no entry is ever seen as set
has_in_transitions(self, state, symbol) ==
    self.transitions_[state][symbol] # ""

has_in_output_function(self, state, symbol) ==
    self.output_function_[state][symbol] # ""

\* ReadLoop with a slip: every symbol is read in the initial state.
RECURSIVE ReadLoop_NoAdvance(_, _, _, _, _)
ReadLoop_NoAdvance(self, word, i, sts, output) ==
    IF i > Len(word) THEN [exc |-> "", states |-> sts, output |-> output]
    ELSE LET t == transition(self, word[i], sts[1])
         IN IF t.exc # "" THEN [exc |-> t.exc, states |-> sts, output |-> output]
            ELSE ReadLoop_NoAdvance(self, word, i + 1, Append(sts, t.s),
                                    Append(output, t.o))

\* The loop of __read__ from position i on: sts and output are the lists
\* states and output filled so far.
RECURSIVE ReadLoop(_, _, _, _, _)
ReadLoop(self, word, i, sts, output) ==
    IF i > Len(word) THEN [exc |-> "", states |-> sts, output |-> output]
    ELSE LET t == transition(self, word[i], sts[i])
         IN IF t.exc # "" THEN [exc |-> t.exc, states |-> sts, output |-> output]
            ELSE ReadLoop(self, word, i + 1, Append(sts, t.s), Append(output, t.o))

\* returns states[:-1] and "".join(output)
__read__(self, word) ==
    LET r == ReadLoop(self, word, 1, <<self.initial_state_>>, <<>>)
    IN IF r.exc # "" THEN [exc |-> r.exc, states |-> <<>>, out |-> <<>>]
       ELSE [exc |-> "", states |-> SubSeq(r.states, 1, Len(r.states) - 1),
             out |-> join(r.output)]

read(self, word) ==
    LET r == __read__(self, word) IN [exc |-> r.exc, out |-> r.out]

\* itertools.product(keys, repeat=length): the leftmost position varies
\* slowest, each position runs through keys in their order
RECURSIVE product(_, _)
product(keys, length) ==
    IF length = 0 THEN << <<>> >>
    ELSE LET rest == product(keys, length - 1)
         IN Concat([j \in DOMAIN keys |->
                      [m \in DOMAIN rest |-> <<keys[j]>> \o rest[m]]])

\* the list of the words the generator yields, in order; iterating the
\* dict self.inputs gives its keys in insertion order
words(self, length, prefix) ==
    LET seqs == product(Keys(self.inputs), length)
    IN [m \in DOMAIN seqs |-> prefix \o join(seqs[m])]

\* A number is kept as the exact fraction num / den.
Fraction(num, den) == [num |-> num, den |-> den]

\* to_number with the symbols weighted from the left: word[i - 1] / n ** i
RECURSIVE NumberTerms_FromLeft(_, _, _, _)
NumberTerms_FromLeft(self, word, n, i) ==
    IF i > Len(word) THEN 0
    ELSE GetV(self.inputs, word[i]) * Pow(n, Len(word) - i)
         + NumberTerms_FromLeft(self, word, n, i + 1)

\* the terms self.inputs[word[-i]] / n ** (i - 1), i = 1..len(word), brought
\* to the denominator n ** (len(word) - 1)
RECURSIVE NumberTerms(_, _, _, _)
NumberTerms(self, word, n, i) ==
    IF i > Len(word) THEN 0
    ELSE GetV(self.inputs, word[Len(word) + 1 - i]) * Pow(n, Len(word) - i)
         + NumberTerms(self, word, n, i + 1)

\* Automata.to_number; a symbol outside self.inputs raises KeyError
to_number(self, word) ==
    LET n == Len(self.inputs) + 1
    IN IF ~(Range(word) \subseteq KeySet(self.inputs))
       THEN [exc |-> "KeyError", number |-> Fraction(0, 1)]
       ELSE IF word = <<>> THEN [exc |-> "", number |-> Fraction(0, 1)]
       ELSE [exc |-> "",
             number |-> Fraction(NumberTerms(self, word, n, 1),
                                 Pow(n, Len(word) - 1))]

\* states[-1] taken of the whole list of states, the state reached after
\* the last symbol included
LastListed_Reached(sts) == sts[Len(sts)]

\* states[-1] of the list __read__ returns; sts is the list the loop
\* filled, of which __read__ returns states[:-1]
LastListed(sts) == sts[Len(sts) - 1]

\* The loop of pairs_generator over the words ws from position m on; acc
\* holds the pairs yielded so far.  An exception ends the iteration.
RECURSIVE PairsLoop(_, _, _, _, _)
PairsLoop(self, ws, m, last_state, acc) ==
    IF m > Len(ws) THEN [next_exc |-> "", list |-> acc]
    ELSE LET r == ReadLoop(self, ws[m], 1, <<self.initial_state_>>, <<>>)
             sts == SubSeq(r.states, 1, Len(r.states) - 1)
             pair == [in_word |-> ws[m], out_word |-> join(r.output)]
         IN IF r.exc # "" THEN [next_exc |-> r.exc, list |-> acc]
            ELSE IF last_state = ""
                 THEN PairsLoop(self, ws, m + 1, last_state, Append(acc, pair))
            ELSE IF sts = <<>> THEN [next_exc |-> "IndexError", list |-> acc]
            ELSE IF LastListed(r.states) = last_state
                 THEN PairsLoop(self, ws, m + 1, last_state, Append(acc, pair))
                 ELSE PairsLoop(self, ws, m + 1, last_state, acc)

\* Automata.pairs_generator, a generator function: the call returns the
\* generator and runs nothing (exc); the body runs when the pairs are asked
\* for, list being the pairs yielded and next_exc the exception that ended
\* the iteration.
pairs_generator(self, length, input_prefix, last_state) ==
    IF last_state \notin self.states
    THEN [exc |-> "", next_exc |-> "ValueError", list |-> <<>>]
    ELSE LET r == PairsLoop(self, words(self, length, input_prefix), 1,
                            last_state, <<>>)
         IN [exc |-> "", next_exc |-> r.next_exc, list |-> r.list]

(***************************************************************************)
(* Automata.detailed_build.  A description map is a dict state -> list of  *)
(* pairs <<input symbol, destination state or output symbol>>.             *)
(***************************************************************************)
Error(kind, state, names) == [kind |-> kind, state |-> state, names |-> names]

\* the set of first components / second components of all lists of a map
Firsts(map) == UNION {{e[1] : e \in Range(map[i].v)} : i \in DOMAIN map}
Seconds(map) == UNION {{e[2] : e \in Range(map[i].v)} : i \in DOMAIN map}

\* inputs - state_inputs (lines 217 and 228)
MissingSymbols(ins, state_inputs) == ins \ state_inputs

\* Loop state of the two table loops.  bound: dst_state has been assigned.
BuildState(automata) ==
    [exc |-> "", automata |-> automata, repeated |-> {}, missing |-> <<>>,
     dst_state |-> "", bound |-> FALSE]

\* for in_, dst_state in state_tranistions (lines 210-217)
RECURSIVE TransitionEntries(_, _, _, _, _, _)
TransitionEntries(st, ins, src_state, entries, i, state_inputs) ==
    IF i > Len(entries)
    THEN IF Cardinality(state_inputs) # Cardinality(ins)
         THEN [st EXCEPT !.missing = DictPut(@, src_state, MissingSymbols(ins, state_inputs))]
         ELSE st
    ELSE LET in_ == entries[i][1]
             dst == entries[i][2]
             st1 == [st EXCEPT !.dst_state = dst, !.bound = TRUE]
         IN IF has_in_transitions(st.automata, src_state, in_)
            THEN TransitionEntries([st1 EXCEPT !.repeated = @ \cup {src_state}],
                                   ins, src_state, entries, i + 1,
                                   state_inputs \cup {in_})
            ELSE LET r == add_to_transitions(st.automata, in_, src_state, dst)
                 IN IF r.exc # "" THEN [st1 EXCEPT !.exc = r.exc]
                    ELSE TransitionEntries([st1 EXCEPT !.automata = r.self],
                                           ins, src_state, entries, i + 1,
                                           state_inputs \cup {in_})

\* for src_state, state_tranistions in transitions.items() (lines 208-217)
RECURSIVE TransitionsLoop(_, _, _, _)
TransitionsLoop(st, ins, transitions, k) ==
    IF k > Len(transitions) \/ st.exc # "" THEN st
    ELSE TransitionsLoop(
             TransitionEntries(st, ins, transitions[k].k, transitions[k].v, 1, {}),
             ins, transitions, k + 1)

\* for in_, out_ in state_tranistions (lines 221-228): a repeated symbol
\* records dst_state, the variable left by the transitions loop.
RECURSIVE OutputEntries(_, _, _, _, _, _)
OutputEntries(st, ins, src_state, entries, i, state_inputs) ==
    IF i > Len(entries)
    THEN IF Cardinality(state_inputs) # Cardinality(ins)
         THEN [st EXCEPT !.missing = DictPut(@, src_state, MissingSymbols(ins, state_inputs))]
         ELSE st
    ELSE LET in_ == entries[i][1]
             out_ == entries[i][2]
         IN IF has_in_output_function(st.automata, src_state, in_)
            THEN IF ~st.bound THEN [st EXCEPT !.exc = "NameError"]
                 ELSE OutputEntries([st EXCEPT !.repeated = @ \cup {st.dst_state}],
                                    ins, src_state, entries, i + 1,
                                    state_inputs \cup {in_})
            ELSE LET r == add_to_output_function(st.automata, in_, src_state, out_)
                 IN IF r.exc # "" THEN [st EXCEPT !.exc = r.exc]
                    ELSE OutputEntries([st EXCEPT !.automata = r.self],
                                       ins, src_state, entries, i + 1,
                                       state_inputs \cup {in_})

RECURSIVE OutputsLoop(_, _, _, _)
OutputsLoop(st, ins, output_function, k) ==
    IF k > Len(output_function) \/ st.exc # "" THEN st
    ELSE OutputsLoop(
             OutputEntries(st, ins, output_function[k].k, output_function[k].v, 1, {}),
             ins, output_function, k + 1)

BuildRaised(e) ==
    [exc |-> e, model |-> None, errors |-> <<>>, automata |-> None]

\* every sequence that holds each element of S once
Orders(S) ==
    {p \in [1..Cardinality(S) -> S] : \A x \in S : \E j \in DOMAIN p : p[j] = x}

\* The set of possible outcomes: Python does not fix the order in which
\* "for state in repeated" iterates the set, so there is one outcome for
\* each order of its elements.
detailed_build(initial_state, transitions, output_function) ==
    LET sts == KeySet(transitions) \cup KeySet(output_function)
        ins == Firsts(transitions) \cup Firsts(output_function)
        outs == Seconds(output_function)
    IN  \* ins, outs = zip(*state_tranistions) on an empty list
        IF \E k \in DOMAIN output_function : output_function[k].v = <<>>
        THEN {BuildRaised("ValueError")}
        ELSE IF InitRaises(sts, initial_state) THEN {BuildRaised("ValueError")}
        ELSE
        LET automata == __init__(sts, initial_state, sorted(ins), sorted(outs))
            errors0 == IF initial_state = ""
                       THEN <<Error("no_initial_state", "", {})>> ELSE <<>>
            missing_t == KeySet(output_function) \ KeySet(transitions)
            missing_o == KeySet(transitions) \ KeySet(output_function)
        IN IF missing_t \cup missing_o # {}
           THEN {[exc |-> "", model |-> None,
                  errors |-> errors0
                     \o (IF missing_t # {}
                         THEN <<Error("missing_in_transitions", "", missing_t)>>
                         ELSE <<>>)
                     \o (IF missing_o # {}
                         THEN <<Error("missing_in_outputs", "", missing_o)>>
                         ELSE <<>>),
                  automata |-> automata]}
           ELSE
           LET st1 == TransitionsLoop(BuildState(automata), ins, transitions, 1)
               st2 == OutputsLoop(st1, ins, output_function, 1)
               Errors(rep) == errors0
                   \o [j \in DOMAIN rep |-> Error("repeated", rep[j], {})]
                   \o [j \in DOMAIN st2.missing |->
                         Error("misses", st2.missing[j].k, st2.missing[j].v)]
           IN IF st2.exc # "" THEN {BuildRaised(st2.exc)}
              ELSE {[exc |-> "",
                     model |-> IF Errors(rep) # <<>> THEN None ELSE st2.automata,
                     errors |-> Errors(rep),
                     automata |-> st2.automata] : rep \in Orders(st2.repeated)}

(***************************************************************************)
(* padic_to_geom (compute.py, calculate.py).  A string of binary digits is *)
(* a sequence of 0 and 1, the most significant first.                      *)
(***************************************************************************)
Abs(x) == IF x < 0 THEN 0 - x ELSE x

\* the binary digits of m >= 0 as bin(m)[2:] gives them
RECURSIVE Bits(_)
Bits(m) == IF m < 2 THEN <<m>> ELSE Append(Bits(m \div 2), m % 2)

\* int(chunk, base=2)
RECURSIVE BitsValue(_)
BitsValue(chunk) ==
    IF chunk = <<>> THEN 0
    ELSE 2 * BitsValue(SubSeq(chunk, 1, Len(chunk) - 1)) + chunk[Len(chunk)]

\* int(math.log2(base))
RECURSIVE Log2(_)
Log2(base) == IF base < 2 THEN 0 ELSE 1 + Log2(base \div 2)

Fill(len, symb) == [i \in 1..len |-> symb]

\* num // base, the quotient rounded down
FloorDiv(num, base) == (num - (num % base)) \div base

\* the digits of the odd branch: digits[i] = num % base; num //= base
RECURSIVE OddDigits(_, _, _, _, _)
OddDigits(digits, num, base, i, n) ==
    IF i > n \/ num = 0 THEN digits
    ELSE OddDigits([digits EXCEPT ![i] = num % base], FloorDiv(num, base), base,
                       i + 1, n)

\* the same loop without the test num == 0 (calculate.py)
RECURSIVE AllOddDigits(_, _, _, _, _)
AllOddDigits(digits, num, base, i, n) ==
    IF i > n THEN digits
    ELSE AllOddDigits([digits EXCEPT ![i] = num % base], FloorDiv(num, base), base,
                       i + 1, n)

\* the list digits of the even branch holds n values
EvenDigitsList_Sized(n, digit_len) == Fill(n, 0)

\* digits = [0] * digits_num
EvenDigitsList(n, digit_len) == Fill(n * digit_len, 0)

\* the digits of the even branch of compute.padic_to_geom
EvenDigits(num, n, base) ==
    LET filling_symb == IF num < 0 THEN 1 ELSE 0
        digit_len == Log2(base)
        digits_num == n * digit_len
        bin == Bits(Abs(num))
        str_num == IF Len(bin) < digits_num
                   THEN Fill(digits_num - Len(bin), filling_symb) \o bin
                   ELSE SubSeq(bin, Len(bin) - digits_num + 1, Len(bin))
        zeros == EvenDigitsList(n, digit_len)
    IN [i \in DOMAIN zeros |->
          IF i <= n
          THEN BitsValue(SubSeq(str_num, (i - 1) * digit_len + 1, i * digit_len))
          ELSE zeros[i]]

\* the sum of the terms (digits[-i - 1] + 1) * (base + 1) ** -i, i = 0..n-1,
\* brought to the denominator (base + 1) ** (n - 1)
RECURSIVE GeomTerms(_, _, _, _)
GeomTerms(digits, base, i, n) ==
    IF i >= n THEN 0
    ELSE (digits[Len(digits) - i] + 1) * Pow(base + 1, n - 1 - i)
         + GeomTerms(digits, base, i + 1, n)

\* compute.padic_to_geom
padic_to_geom(num, n, base) ==
    LET digits == IF base % 2 = 0 THEN EvenDigits(num, n, base)
                  ELSE OddDigits(Fill(n, 0), num, base, 1, n)
    IN IF n = 0 THEN Fraction(0, 1)
       ELSE Fraction(GeomTerms(digits, base, 0, n), Pow(base + 1, n - 1))

\* the digits of the even branch of calculate.padic_to_geom
CalculateEvenDigits(num, n, base) ==
    LET digit_len == Log2(base)
        num_len == digit_len * n
        bin == Bits(Abs(num))
        pad == Fill(IF Len(bin) < num_len THEN num_len - Len(bin) ELSE 0,
                    IF num < 0 THEN 1 ELSE 0)
        str_num == IF num >= 0 THEN pad \o bin ELSE bin \o pad
    IN [i \in 1..n |->
          BitsValue(SubSeq(str_num, (i - 1) * digit_len + 1, i * digit_len))]

\* the sum of the terms digits[n - i - 1] / n ** i, i = 0..n-1, brought to
\* the denominator n ** (n - 1)
RECURSIVE CalculateTerms(_, _, _)
CalculateTerms(digits, i, n) ==
    IF i >= n THEN 0
    ELSE digits[n - i] * Pow(n, n - 1 - i) + CalculateTerms(digits, i + 1, n)

\* calculate.padic_to_geom
calculate_padic_to_geom(num, n, base) ==
    LET digits == IF base % 2 = 0 THEN CalculateEvenDigits(num, n, base)
                  ELSE AllOddDigits(Fill(n, 0), num, base, 1, n)
    IN IF n = 0 THEN Fraction(0, 1)
       ELSE Fraction(CalculateTerms(digits, 0, n), Pow(n, n - 1))

(***************************************************************************)
(* class Automata (automata.py, first version).  Its tables are indexed    *)
(* [symbol][state]; the same cells are read here as [state][symbol].       *)
(***************************************************************************)
legacy_transition(self, symbol, state) ==
    IF ~HasKey(self.transitions_, state, symbol)
       \/ ~HasKey(self.output_function_, state, symbol)
    THEN [exc |-> "KeyError", s |-> "", o |-> ""]
    ELSE [exc |-> "", s |-> self.transitions_[state][symbol],
          o |-> self.output_function_[state][symbol]]

\* the loop of read: output += f"{output}{o}"
RECURSIVE LegacyReadLoop(_, _, _, _, _)
LegacyReadLoop(self, word, i, s, output) ==
    IF i > Len(word) THEN [exc |-> "", out |-> output]
    ELSE LET t == legacy_transition(self, word[i], s)
         IN IF t.exc # "" THEN [exc |-> t.exc, out |-> <<>>]
            ELSE LegacyReadLoop(self, word, i + 1, t.s,
                                output \o (output \o join(<<t.o>>)))

legacy_read(self, word) ==
    IF (Range(word) \ KeySet(self.inputs)) \cup (KeySet(self.inputs) \ Range(word)) = {}
    THEN [exc |-> "ValueError", out |-> <<>>]
    ELSE IF self.initial_state_ = ""
         THEN [exc |-> "ValueError", out |-> <<>>]
         ELSE LegacyReadLoop(self, word, 1, self.initial_state_, <<>>)

\* to_number of the first version: n is the dict input_alphabet_, so the
\* first term raises: word[1] does not exist in a word of one symbol, and
\* n ** i is not defined for a dict.  Only the empty word gets a value.
legacy_to_number(self, word) ==
    LET r == legacy_read(self, word)
    IN IF r.exc # "" THEN [exc |-> r.exc, number |-> Fraction(0, 1)]
       ELSE IF word = <<>> THEN [exc |-> "", number |-> Fraction(0, 1)]
       ELSE IF Len(word) < 2 THEN [exc |-> "IndexError", number |-> Fraction(0, 1)]
       ELSE IF ~Has(self.inputs, word[2])
            THEN [exc |-> "KeyError", number |-> Fraction(0, 1)]
            ELSE [exc |-> "TypeError", number |-> Fraction(0, 1)]

\* The keys of a table of the first version, which are input symbols, and
\* the keys of the row of symbol a, which are states.
LegacyRows(table) == UNION {DOMAIN table[s] : s \in DOMAIN table}
LegacyRowKeys(table, a) == {s \in DOMAIN table : a \in DOMAIN table[s]}

\* Automata.__init__ of the first version, for a non-empty list of states
legacy_init(sts, initial_state, input_alphabet, output_alphabet) ==
    LET ins == Enumerate(<<>>, input_alphabet, 1)
        outs == Enumerate(<<>>, output_alphabet, 1)
    IN [states |-> sts, initial_state_ |-> initial_state,
        inputs |-> ins, outputs |-> outs,
        transitions_ |-> [s \in sts |-> fromkeys(KeySet(ins))],
        output_function_ |-> [s \in sts |-> fromkeys(KeySet(ins))]]

\* add_state: self.states.add(state), the tables are left alone
legacy_add_state(self, state) ==
    Ok([self EXCEPT !.states = @ \cup {state}])

\* add_input_symbol: the tables get no row for the symbol
legacy_add_input_symbol(self, symbol) ==
    Ok([self EXCEPT !.inputs =
        DictPut(@, symbol, IF Has(@, symbol) THEN GetV(@, symbol) ELSE Len(@) + 1)])

\* add_output_symbol: a new symbol gets the next rank
legacy_add_output_symbol(self, symbol) ==
    Ok([self EXCEPT !.outputs =
        DictPut(@, symbol, IF Has(@, symbol) THEN GetV(@, symbol) ELSE Len(@) + 1)])

\* the setter of initial_state: a name that is no state is refused without
\* an exception (the value False of the setter is lost)
legacy_set_initial_state(self, state) ==
    IF state \notin self.states THEN Ok(self)
    ELSE Ok([self EXCEPT !.initial_state_ = state])

legacy_reset_input_order(self, ordered) ==
    IF Len(ordered) # Len(self.inputs) THEN Raise("ValueError", self)
    ELSE IF (Range(ordered) \ KeySet(self.inputs))
              \cup (KeySet(self.inputs) \ Range(ordered)) # {}
         THEN Raise("ValueError", self)
         ELSE Ok([self EXCEPT !.inputs = Enumerate(<<>>, ordered, 1)])

legacy_reset_output_order(self, ordered) ==
    IF Len(ordered) # Len(self.outputs) THEN Raise("ValueError", self)
    ELSE IF (Range(ordered) \ KeySet(self.outputs))
              \cup (KeySet(self.outputs) \ Range(ordered)) # {}
         THEN Raise("ValueError", self)
         ELSE Ok([self EXCEPT !.outputs = Enumerate(<<>>, ordered, 1)])

\* table[input_symbol][input_state] = value: KeyError was raised before for
\* a symbol without a row; a new state gets a key in the row.
LegacySetCell(table, input_symbol, input_state, value) ==
    UpdateRow(table, input_state,
              SetCell(IF input_state \in DOMAIN table THEN table[input_state]
                      ELSE <<>>,
                      input_symbol, value))

legacy_add_transition(self, input_symbol, input_state, output_state, output_symbol) ==
    IF \/ ~Has(self.inputs, input_symbol)
       \/ input_state \notin self.states
       \/ output_state \notin self.states
       \/ ~Has(self.outputs, output_symbol)
    THEN Raise("ValueError", self)
    ELSE IF input_symbol \notin LegacyRows(self.transitions_)
         THEN Raise("KeyError", self)
         ELSE Ok([self EXCEPT
                !.transitions_ =
                    LegacySetCell(@, input_symbol, input_state, output_state),
                !.output_function_ =
                    LegacySetCell(@, input_symbol, input_state, output_symbol)])

\* One loop of detailed_verificatin: "for state, tranistions in
\* self.transitions_.items()" runs over the rows of the table, which are the
\* input symbols, in the order in which the constructor made them, which is
\* the order of the list made; diff is the input alphabet less the keys of
\* the row, which are states.  Both loops read self.transitions_.
VerificationLoop(self, made, kind) ==
    LET rows == SelectSeq(made, LAMBDA a : a \in LegacyRows(self.transitions_))
        Diff(a) == KeySet(self.inputs) \ LegacyRowKeys(self.transitions_, a)
        found == SelectSeq(rows, LAMBDA a : Diff(a) # {})
    IN [j \in DOMAIN found |-> Error(kind, found[j], Diff(found[j]))]

detailed_verificatin(self, made) ==
    (IF self.initial_state_ = "" THEN <<Error("no_initial_state", "", {})>>
     ELSE <<>>)
    \o VerificationLoop(self, made, "must_have_transition")
    \o VerificationLoop(self, made, "must_have_output")

(***************************************************************************)
(* automata_builder/core/parser.py.  A string is the sequence of its       *)
(* tokens (a literal, an operator, a parenthesis, a space, a name); an     *)
(* expression is the tree ast.parse gives for it.  A call that never       *)
(* returns has hangs = TRUE in its result.                                 *)
(***************************************************************************)
_operators_ ==
    [Add |-> "+", Sub |-> "-", Mult |-> "*", Div |-> "/", USub |-> "-",
     BitAnd |-> "&", BitOr |-> "|", BitXor |-> "^", Not |-> "!", Mod |-> "%",
     FloorDiv |-> "//", Pow |-> "**", LShift |-> "<<", RShift |-> ">>"]

\* the integers a variable-free operand of the expressions drawn can fold to
Values == (0 - 2 * MaxLiteral * MaxLiteral)..(2 * MaxLiteral * MaxLiteral)

Returned(text, has_var) ==
    [exc |-> "", msg |-> "", hangs |-> FALSE, text |-> text, has_var |-> has_var]

Raised(exc, msg) ==
    [exc |-> exc, msg |-> msg, hangs |-> FALSE, text |-> <<>>, has_var |-> FALSE]

Hangs == [exc |-> "", msg |-> "", hangs |-> TRUE, text |-> <<>>, has_var |-> FALSE]

Completed(r) == r.exc = "" /\ ~r.hangs

\* str.isnumeric(): a literal without a sign
isnumeric(text) == Len(text) = 1 /\ \E v \in Values : v >= 0 /\ text[1] = ToString(v)

\* int(str) of a literal
int(text) == CHOOSE v \in Values : text[1] = ToString(v)

\* a // b of Python
PyFloorDiv(a, b) == IF b > 0 THEN FloorDiv(a, b) ELSE FloorDiv(0 - a, 0 - b)

\* eval of "(a op b)" for two literals
EvalBinary(a, op, b) ==
    CASE op = "+" -> [exc |-> "", value |-> a + b]
      [] op = "-" -> [exc |-> "", value |-> a - b]
      [] op = "*" -> [exc |-> "", value |-> a * b]
      [] op = "//" -> IF b = 0 THEN [exc |-> "ZeroDivisionError", value |-> 0]
                      ELSE [exc |-> "", value |-> PyFloorDiv(a, b)]
      [] op = "<<" -> IF b < 0 THEN [exc |-> "ValueError", value |-> 0]
                      ELSE [exc |-> "", value |-> a * Pow(2, b)]
      [] op = ">>" -> IF b < 0 THEN [exc |-> "ValueError", value |-> 0]
                      ELSE [exc |-> "", value |-> FloorDiv(a, Pow(2, b))]

\* eval(text) of a string parse built without the variable: a literal,
\* "(" op operand ")" or "(" literal " " op " " literal ")".  Python has no
\* prefix operator "!".
RECURSIVE eval(_)
eval(text) ==
    IF Len(text) = 1 THEN [exc |-> "", value |-> int(text)]
    ELSE IF text[2] = "!" THEN [exc |-> "SyntaxError", value |-> 0]
    ELSE IF text[2] = "-"
         THEN LET v == eval(SubSeq(text, 3, Len(text) - 1))
              IN IF v.exc # "" THEN v ELSE [exc |-> "", value |-> 0 - v.value]
         ELSE EvalBinary(int(<<text[2]>>), text[4], int(<<text[6]>>))

\* One pass of the body of "while numer not in numbers": the first remainder
\* whose n is a multiple of base is recorded under n.
FracStep(numer, denom, base, numbers, i) ==
    LET found == {r \in 0..(base - 1) : (numer - r * denom) % base = 0}
    IN IF found = {} THEN numbers
       ELSE LET remainder == CHOOSE r \in found : \A q \in found : r <= q
            IN DictPut(numbers, numer - remainder * denom, i)

\* The while loop of frac_to_padic.  numer, denom and base never change in
\* it, so a pass that adds no key leaves the test of the loop as it was, and
\* so does every pass after it: the loop does not end.
RECURSIVE FracLoop(_, _, _, _, _)
FracLoop(numer, denom, base, numbers, i) ==
    IF Has(numbers, numer) THEN [hangs |-> FALSE, numbers |-> numbers]
    ELSE LET next == FracStep(numer, denom, base, numbers, i)
         IN IF KeySet(next) = KeySet(numbers)
            THEN [hangs |-> TRUE, numbers |-> next]
            ELSE FracLoop(numer, denom, base, next, i + 1)

\* frac_to_padic: after the loop, "for num, i in numbers" iterates the keys
\* of a non-empty dict, integers, and unpacking one raises TypeError.
frac_to_padic(numer, denom, base) ==
    LET loop == FracLoop(numer, denom, base, <<>>, 0)
    IN IF loop.hangs THEN [exc |-> "", hangs |-> TRUE, value |-> 0]
       ELSE [exc |-> "TypeError", hangs |-> FALSE, value |-> 0]

\* lines 75-76 and 79-80: an operand without the variable that is not a
\* numeral is replaced by the literal of its value
Operand(r) ==
    IF ~Completed(r) \/ r.has_var \/ isnumeric(r.text) THEN r
    ELSE LET v == eval(r.text)
         IN IF v.exc # "" THEN Raised(v.exc, "")
            ELSE Returned(<<ToString(v.value)>>, FALSE)

\* the test of the shift with the amount left unexamined
IncorrectShift_AnyAmount(right) == right.has_var

\* has_var_r or right != "1" or int(right) < 0
IncorrectShift(right) ==
    right.has_var \/ right.text # <<"1">> \/ int(right.text) < 0

\* lines 82-92 for the operands left and right as folded
Combine(op, left, right, base) ==
    IF op = "/"
    THEN IF right.has_var \/ int(right.text) % base = 0
         THEN Raised("ExpressionError", "Incorrect division")
         ELSE LET f == frac_to_padic(1, int(right.text), base)
              IN IF f.hangs THEN Hangs
                 ELSE IF f.exc # "" THEN Raised(f.exc, "")
                 ELSE Returned(<<"(">> \o left.text
                                  \o <<" ", op, " ", ToString(f.value), ")">>,
                               left.has_var \/ right.has_var)
    ELSE IF op \in {"<<", ">>"} /\ IncorrectShift(right)
         THEN Raised("ExpressionError", "Incorrect shift")
         ELSE Returned(<<"(">> \o left.text \o <<" ", op, " ">> \o right.text
                          \o <<")">>,
                       left.has_var \/ right.has_var)

\* parse of parse_expression; base is the argument of the enclosing call
RECURSIVE parse(_, _, _)
parse(node, variables, base) ==
    CASE node.node = "Expression" -> parse(node.body, variables, base)
      [] node.node = "Constant" -> Returned(<<ToString(node.value)>>, FALSE)
      [] node.node = "BinOp" ->
            IF node.op \notin DOMAIN _operators_
            THEN Raised("ExpressionError", "Incorrect operation")
            ELSE LET left == Operand(parse(node.left, variables, base))
                 IN IF ~Completed(left) THEN left
                    ELSE LET right == Operand(parse(node.right, variables, base))
                         IN IF ~Completed(right) THEN right
                            ELSE Combine(_operators_[node.op], left, right, base)
      [] node.node = "UnaryOp" ->
            IF node.op \notin DOMAIN _operators_
            THEN Raised("ExpressionError", "Incorrect operation")
            ELSE LET operand == parse(node.operand, variables, base)
                 IN IF ~Completed(operand) THEN operand
                    ELSE Returned(<<"(", _operators_[node.op]>> \o operand.text
                                     \o <<")">>,
                                  operand.has_var)
      [] node.node = "Name" ->
            IF node.id \in variables THEN Returned(<<node.id>>, TRUE)
            ELSE Raised("ExpressionError", "Unknown variable")
      [] OTHER -> Raised("ExpressionError", "Unsupported expression")

\* parse_expression(expression, base, var_name), expression being the tree
\* ast.parse(expression, mode="eval") gives
parse_expression(expression, base, var_name) ==
    parse([node |-> "Expression", body |-> expression], {var_name}, base)

(***************************************************************************)
(* compute.py and calculate.py: by_function, by_automata and curves, each  *)
(* run by a worker with an Event cond that another thread may set.  The    *)
(* frame of the running call holds its arguments and its locals: cond, the *)
(* number k of iterations of the outer loop done, the position i in the    *)
(* inner loop of curves, and the lists built so far.                       *)
(***************************************************************************)
Frame(op, args) ==
    [op |-> op, args |-> args, cond |-> FALSE, k |-> 0, i |-> 0,
     x |-> <<>>, y |-> <<>>, out_word |-> <<>>, plots |-> <<>>]

\* the functions handed to by_function, by the expression they compute
Funcs == {"x", "x + 1", "-x"}

Apply(func, num) ==
    IF func = "x" THEN num
    ELSE IF func = "x + 1" THEN num + 1
    ELSE 0 - num

\* list(range(a, b))
range(a, b) == [j \in 1..(b - a) |-> a + j - 1]

\* the pairs (i, num) of the two loops of by_function, in order:
\* for i in range(length): for num in range(base**i, base**(i + 1))
RECURSIVE FunctionIterations(_, _, _)
FunctionIterations(base, length, i) ==
    IF i >= length THEN <<>>
    ELSE LET nums == range(Pow(base, i), Pow(base, i + 1))
         IN [j \in DOMAIN nums |-> [i |-> i, num |-> nums[j]]]
            \o FunctionIterations(base, length, i + 1)

\* the body of the inner loop of by_function after the test of cond
FunctionAppend(frame, it) ==
    [frame EXCEPT
        !.k = @ + 1,
        !.x = Append(@, padic_to_geom(it.num, it.i, frame.args.base)),
        !.y = Append(@, padic_to_geom(Apply(frame.args.func, it.num), it.i,
                                      frame.args.base))]

\* a call with the positional arguments args of
\* pairs_generator(self, length, input_prefix="", last_state=""): more than
\* three of them raise TypeError at the call, before the generator exists
CallPairsGenerator(self, args) ==
    IF Len(args) > 3
    THEN [exc |-> "TypeError", next_exc |-> "", list |-> <<>>]
    ELSE pairs_generator(self, args[1],
                         IF Len(args) >= 2 THEN args[2] ELSE <<>>,
                         IF Len(args) >= 3 THEN args[3] ELSE "")

\* the lengths of the loop of by_automata: range(1, length)
AutomataLengths(length) == range(1, length)

\* sorted(automata.inputs, key=lambda x: automata.inputs[x])
SortedInputs(self) ==
    LET ranks == {self.inputs[j].v : j \in DOMAIN self.inputs}
        RECURSIVE ByRank(_)
        ByRank(rs) ==
            IF rs = {} THEN <<>>
            ELSE LET lo == CHOOSE r \in rs : \A q \in rs : r <= q
                 IN SelectSeq(Keys(self.inputs),
                              LAMBDA c : GetV(self.inputs, c) = lo)
                    \o ByRank(rs \ {lo})
    IN ByRank(ranks)

\* in_ * k
Repeat(symbol, k) == [j \in 1..k |-> symbol]

\* Points(x, y, xlim, ylim): the limits are fixed by the arguments
Points(x, y) == [x |-> x, y |-> y]

\* Points(x, y, color=next(colors), is_plot=True) of curves: x is the same
\* for every curve and y is computed from the outputs of out_word alone
Curve(in_, out_word, color) ==
    [in_ |-> in_, out_word |-> out_word, color |-> color]

(***************************************************************************)
(* class Tab (ui/tab/tab.py) and WorkerThread (utiles/utiles.py).  The     *)
(* workers a Tab created are numbered in the order of their creation; each *)
(* is running, emitted (run has emitted finished, which queues             *)
(* deleteLater, and has not returned yet), finished (run returned) or      *)
(* destroyed.  _thread is the number of the worker Tab._thread refers to,  *)
(* 0 for None; asking is the function a draw click handed to               *)
(* start_computation while its confirmation dialog is open.                *)
(***************************************************************************)
NewTab ==
    [op |-> "Tab", args |-> <<>>, _thread |-> 0, workers |-> <<>>,
     asking |-> "", crashed |-> FALSE]

\* WorkerThread(func) after start()
WorkerThread(func) == [func |-> func, state |-> "running", cond |-> FALSE]

\* QThread.isRunning: run has not returned
isRunning(tab, w) == tab.workers[w].state \in {"running", "emitted"}

\* deleteLater of the worker is queued: its finished was emitted
DeleteQueued(tab, w) == tab.workers[w].state \in {"emitted", "finished"}

isFinished(tab, w) == tab.workers[w].state = "finished"

\* WorkerThread.stop
stop(tab, w) == [tab EXCEPT !.workers[w].cond = TRUE]

\* Tab.stop_computation
stop_computation(tab) ==
    IF tab._thread = 0 \/ isFinished(tab, tab._thread) THEN tab
    ELSE stop(tab, tab._thread)

\* the test that opens the dialog of start_computation
MustConfirm(tab) == tab._thread # 0 /\ isRunning(tab, tab._thread)

\* start_computation from self._thread = WorkerThread(func) on.  A worker
\* has no parent and no other reference than _thread: when the assignment
\* drops a worker whose run has returned, the worker is deleted at once, its
\* destroyed runs on_destroyed, which sets _thread to None, and
\* self._thread.setObjectName raises AttributeError out of the slot, which
\* ends the process; no worker is started.
Launch(tab, func) ==
    LET ws == Append(tab.workers, WorkerThread(func))
        old == tab._thread
    IN IF old # 0 /\ isFinished(tab, old)
       THEN [tab EXCEPT !.workers[old].state = "destroyed", !._thread = 0,
                        !.asking = "", !.crashed = TRUE]
       ELSE [tab EXCEPT !.workers = ws, !._thread = Len(ws), !.asking = ""]

\* the functions that can raise in run: by_automata at its call of
\* pairs_generator for a length of 2 or more, calc at automata.output_number,
\* by_function at func(num) for an expression such as x // 0
MayRaise(func) == func \in {"by_automata", "calc", "by_function"}

\* on_destroyed, the same closure for every worker
on_destroyed(tab) == [tab EXCEPT !._thread = 0]

(***************************************************************************)
(* Results of calls                                                        *)
(***************************************************************************)
NoRet == [op |-> "", exc |-> "", args |-> <<>>, out |-> <<>>, list |-> <<>>,
          model |-> None, errors |-> <<>>, automata |-> None,
          number |-> Fraction(0, 1), next_exc |-> "", msg |-> "",
          hangs |-> FALSE, x |-> <<>>, y |-> <<>>]

Called(op, args, exc) == [NoRet EXCEPT !.op = op, !.args = args, !.exc = exc]

Assign(self) ==
    /\ states' = self.states
    /\ initial_state_' = self.initial_state_
    /\ inputs' = self.inputs
    /\ outputs' = self.outputs
    /\ transitions_' = self.transitions_
    /\ output_function_' = self.output_function_

\* the object is self (in the initial state)
Constructed(self) ==
    /\ states = self.states
    /\ initial_state_ = self.initial_state_
    /\ inputs = self.inputs
    /\ outputs = self.outputs
    /\ transitions_ = self.transitions_
    /\ output_function_ = self.output_function_

object == <<states, initial_state_, inputs, outputs, transitions_, output_function_>>

\* argument lists without repetition
Alphabets(S) == {a \in SeqsUpTo(S, Cardinality(S)) : NoDup(a)}

(***************************************************************************)
(* Reading words.  The object is an automaton over StateNames and InSyms   *)
(* in which every cell of either table was set by a setter or never set;   *)
(* pending is the call about to be made on it.                             *)
(***************************************************************************)
WordChars == InSyms \cup {Foreign}
Words == SeqsUpTo(WordChars, MaxLen)

Cells == [s : StateNames \cup {""}, o : OutSyms \cup {""}]

ReadCalls ==
    [op : {"read"}, args : Words]
    \cup [op : {"transition"},
          args : WordChars \X (StateNames \cup {"", ForeignState})]

InitRead ==
    /\ \E initial_state \in {""} \cup StateNames :
       \E cell \in [StateNames -> [InSyms -> Cells]] :
          LET a == __init__(StateNames, initial_state, sorted(InSyms), sorted(OutSyms))
          IN Constructed([a EXCEPT
                 !.transitions_ = [s \in StateNames |-> [i \in InSyms |-> cell[s][i].s]],
                 !.output_function_ = [s \in StateNames |-> [i \in InSyms |-> cell[s][i].o]]])
    /\ pending \in ReadCalls
    /\ ret = NoRet
    /\ calls = 0

Read ==
    /\ ret = NoRet /\ pending.op = "read"
    /\ LET r == read(Self, pending.args)
       IN ret' = [Called("read", pending.args, r.exc) EXCEPT !.out = r.out]
    /\ UNCHANGED <<object, pending, calls>>

LegacyRead ==
    /\ ret = NoRet /\ pending.op = "read"
    /\ LET r == legacy_read(Self, pending.args)
       IN ret' = [Called("legacy_read", pending.args, r.exc) EXCEPT !.out = r.out]
    /\ UNCHANGED <<object, pending, calls>>

Transition ==
    /\ ret = NoRet /\ pending.op = "transition"
    /\ LET t == transition(Self, pending.args[1], pending.args[2])
       IN ret' = [Called("transition", pending.args, t.exc)
                     EXCEPT !.out = <<t.s, t.o>>]
    /\ UNCHANGED <<object, pending, calls>>

LegacyTransition ==
    /\ ret = NoRet /\ pending.op = "transition"
    /\ LET t == legacy_transition(Self, pending.args[1], pending.args[2])
       IN ret' = [Called("legacy_transition", pending.args, t.exc)
                     EXCEPT !.out = <<t.s, t.o>>]
    /\ UNCHANGED <<object, pending, calls>>

NextRead == Read \/ LegacyRead \/ Transition \/ LegacyTransition

SpecRead == InitRead /\ [][NextRead]_vars

(***************************************************************************)
(* Numbers of words.  The object has one state A, any alphabets, and       *)
(* tables that are either as constructed or filled with the loop on A;     *)
(* pending is the word handed to to_number.                                *)
(***************************************************************************)
Looped(a, output_alphabet) ==
    [a EXCEPT
        !.transitions_ = [s \in DOMAIN @ |-> [i \in DOMAIN @[s] |-> "A"]],
        !.output_function_ =
            [s \in DOMAIN @ |-> [i \in DOMAIN @[s] |-> output_alphabet[1]]]]

InitNumber ==
    /\ \E initial_state \in {"", "A"}, loop \in BOOLEAN :
       \E input_alphabet \in Alphabets(InSyms), output_alphabet \in Alphabets(OutSyms) :
          LET a == __init__({"A"}, initial_state, input_alphabet, output_alphabet)
          IN /\ loop => output_alphabet # <<>>
             /\ Constructed(IF loop THEN Looped(a, output_alphabet) ELSE a)
    /\ pending \in [op : {"to_number"}, args : Words]
    /\ ret = NoRet
    /\ calls = 0

ToNumber ==
    /\ ret = NoRet /\ pending.op = "to_number"
    /\ LET r == to_number(Self, pending.args)
       IN ret' = [Called("to_number", pending.args, r.exc) EXCEPT !.number = r.number]
    /\ UNCHANGED <<object, pending, calls>>

LegacyToNumber ==
    /\ ret = NoRet /\ pending.op = "to_number"
    /\ LET r == legacy_to_number(Self, pending.args)
       IN ret' = [Called("legacy_to_number", pending.args, r.exc)
                     EXCEPT !.number = r.number]
    /\ UNCHANGED <<object, pending, calls>>

NextNumber == ToNumber \/ LegacyToNumber

SpecNumber == InitNumber /\ [][NextNumber]_vars

(***************************************************************************)
(* Re-ordering and pairs.  The object is an automaton as in the reading    *)
(* of words; pending is the call about to be made on it.                   *)
(***************************************************************************)
Prefixes == {<<>>, <<"1">>}

WordCalls ==
    [op : {"reset_inputs_order"}, args : SeqsUpTo(InSyms, Cardinality(InSyms))]
    \cup [op : {"reset_outputs_order"}, args : SeqsUpTo(OutSyms, Cardinality(OutSyms))]
    \cup [op : {"pairs_generator"},
          args : [length : 0..MaxLen, input_prefix : Prefixes,
                  last_state : StateNames \cup {"", ForeignState}]]

InitWords ==
    /\ \E initial_state \in {""} \cup StateNames :
       \E cell \in [StateNames -> [InSyms -> Cells]] :
          LET a == __init__(StateNames, initial_state, sorted(InSyms), sorted(OutSyms))
          IN Constructed([a EXCEPT
                 !.transitions_ = [s \in StateNames |-> [i \in InSyms |-> cell[s][i].s]],
                 !.output_function_ = [s \in StateNames |-> [i \in InSyms |-> cell[s][i].o]]])
    /\ pending \in WordCalls
    /\ ret = NoRet
    /\ calls = 0

ReorderInputs ==
    /\ ret = NoRet /\ pending.op = "reset_inputs_order"
    /\ LET r == reset_inputs_order(Self, pending.args)
       IN /\ Assign(r.self)
          /\ ret' = Called("reset_inputs_order", pending.args, r.exc)
    /\ UNCHANGED <<pending, calls>>

ReorderOutputs ==
    /\ ret = NoRet /\ pending.op = "reset_outputs_order"
    /\ LET r == reset_outputs_order(Self, pending.args)
       IN /\ Assign(r.self)
          /\ ret' = Called("reset_outputs_order", pending.args, r.exc)
    /\ UNCHANGED <<pending, calls>>

\* the call of pairs_generator and the iteration of what it returns
PairsGenerator ==
    /\ ret = NoRet /\ pending.op = "pairs_generator"
    /\ LET r == pairs_generator(Self, pending.args.length,
                                pending.args.input_prefix, pending.args.last_state)
       IN ret' = [Called("pairs_generator", pending.args, r.exc)
                     EXCEPT !.list = r.list, !.next_exc = r.next_exc]
    /\ UNCHANGED <<object, pending, calls>>

NextWords == ReorderInputs \/ ReorderOutputs \/ PairsGenerator

SpecWords == InitWords /\ [][NextWords]_vars

(***************************************************************************)
(* Values of integers: pending holds the arguments of padic_to_geom.       *)
(***************************************************************************)
Nums == (0 - Pow(4, MaxDigits))..(Pow(4, MaxDigits) - 1)

InitGeom ==
    /\ Constructed(__init__({}, "", <<>>, <<>>))
    /\ pending \in [op : {"padic_to_geom"},
                    args : [num : Nums, n : 0..MaxDigits, base : Bases]]
    /\ ret = NoRet
    /\ calls = 0

PadicToGeom ==
    /\ ret = NoRet /\ pending.op = "padic_to_geom"
    /\ ret' = [Called("padic_to_geom", pending.args, "")
                  EXCEPT !.number = padic_to_geom(pending.args.num, pending.args.n,
                                                  pending.args.base)]
    /\ UNCHANGED <<object, pending, calls>>

CalculatePadicToGeom ==
    /\ ret = NoRet /\ pending.op = "padic_to_geom"
    /\ ret' = [Called("calculate_padic_to_geom", pending.args, "")
                  EXCEPT !.number = calculate_padic_to_geom(pending.args.num,
                                        pending.args.n, pending.args.base)]
    /\ UNCHANGED <<object, pending, calls>>

NextGeom == PadicToGeom \/ CalculatePadicToGeom

SpecGeom == InitGeom /\ [][NextGeom]_vars

(***************************************************************************)
(* Compiling expressions: pending holds the arguments of parse_expression  *)
(* or of frac_to_padic.                                                    *)
(***************************************************************************)
Leaves ==
    [node : {"Name"}, id : {"x", "y"}]
    \cup [node : {"Constant"}, value : 0..MaxLiteral]

UnaryOps == {"USub", "Not", "UAdd"}
BinOps == {"Add", "Sub", "Mult", "Div", "FloorDiv", "LShift", "RShift", "MatMult"}

Unary(S) == [node : {"UnaryOp"}, op : UnaryOps, operand : S]
Binary(L, R) == [node : {"BinOp"}, op : BinOps, left : L, right : R]

Operands == Leaves \cup Unary(Leaves) \cup Binary(Leaves, Leaves)

\* the expressions compiled: an operator over a leaf and an operand
Expressions == Operands \cup Binary(Leaves, Operands) \cup Binary(Operands, Leaves)

InitParse ==
    /\ Constructed(__init__({}, "", <<>>, <<>>))
    /\ pending \in [op : {"parse_expression"},
                    args : [expression : Expressions, base : Bases]]
                   \cup [op : {"frac_to_padic"},
                         args : [numer : 0..MaxLiteral,
                                 denom : 1..(MaxLiteral * MaxLiteral),
                                 base : Bases]]
    /\ ret = NoRet
    /\ calls = 0

ParseExpression ==
    /\ ret = NoRet /\ pending.op = "parse_expression"
    /\ LET r == parse_expression(pending.args.expression, pending.args.base, "x")
       IN ret' = [Called("parse_expression", pending.args, r.exc)
                     EXCEPT !.out = r.text, !.msg = r.msg, !.hangs = r.hangs]
    /\ UNCHANGED <<object, pending, calls>>

FracToPadic ==
    /\ ret = NoRet /\ pending.op = "frac_to_padic"
    /\ LET r == frac_to_padic(pending.args.numer, pending.args.denom,
                              pending.args.base)
       IN ret' = [Called("frac_to_padic", pending.args, r.exc)
                     EXCEPT !.hangs = r.hangs]
    /\ UNCHANGED <<object, pending, calls>>

NextParse == ParseExpression \/ FracToPadic

SpecParse == InitParse /\ [][NextParse]_vars

(***************************************************************************)
(* Building: pending is the description handed to detailed_build; the      *)
(* object is the model the call returned, an empty Automata() before.      *)
(***************************************************************************)
Names == StateNames \cup {""}
TransitionEntry == InSyms \X Names
\* an output entry may leave its output symbol empty, as a destination
OutputEntry == InSyms \X (OutSyms \cup {""})

\* the dict {state: list} over the states of keys, in sorted order
MapOf(keys, list) == [j \in DOMAIN sorted(keys) |->
                         [k |-> sorted(keys)[j], v |-> list[sorted(keys)[j]]]]

RECURSIVE Sum(_, _)
Sum(f, S) == IF S = {} THEN 0
             ELSE LET x == CHOOSE x \in S : TRUE IN f[x] + Sum(f, S \ {x})

Slots == {"t", "o"} \X StateNames

\* every description of at most MaxEntries entries over the names A and B
InitBuild ==
    /\ Constructed(__init__({}, "", <<>>, <<>>))
    /\ \E initial_state \in Names :
       \E kt \in SUBSET StateNames, ko \in SUBSET StateNames :
       \E lens \in [Slots -> 0..MaxEntries] :
          /\ Sum(lens, Slots) <= MaxEntries
          /\ \A s \in StateNames \ kt : lens[<<"t", s>>] = 0
          /\ \A s \in StateNames \ ko : lens[<<"o", s>>] = 0
          /\ \E tA \in [1..lens[<<"t", "A">>] -> TransitionEntry] :
             \E tB \in [1..lens[<<"t", "B">>] -> TransitionEntry] :
             \E oA \in [1..lens[<<"o", "A">>] -> OutputEntry] :
             \E oB \in [1..lens[<<"o", "B">>] -> OutputEntry] :
                pending = [op |-> "detailed_build",
                           args |-> [initial_state |-> initial_state,
                                     transitions |-> MapOf(kt, [A |-> tA, B |-> tB]),
                                     output_function |-> MapOf(ko, [A |-> oA, B |-> oB])]]
    /\ ret = NoRet
    /\ calls = 0

DetailedBuild ==
    /\ ret = NoRet /\ pending.op = "detailed_build"
    /\ \E r \in detailed_build(pending.args.initial_state,
                               pending.args.transitions,
                               pending.args.output_function) :
            /\ ret' = [NoRet EXCEPT !.op = "detailed_build", !.exc = r.exc,
                                    !.model = r.model, !.errors = r.errors,
                                    !.automata = r.automata]
            /\ IF r.model # None THEN Assign(r.model) ELSE UNCHANGED object
    /\ UNCHANGED <<pending, calls>>

SpecBuild == InitBuild /\ [][DetailedBuild]_vars

(***************************************************************************)
(* The object: constructed by Automata(states, initial_state,              *)
(* input_alphabet, output_alphabet), then called at most MaxCalls times.   *)
(***************************************************************************)
NoCall == [op |-> "", args |-> <<>>]

Init ==
    /\ \E sts \in SUBSET StateNames, initial_state \in Names :
       \E input_alphabet \in Alphabets(InSyms), output_alphabet \in Alphabets(OutSyms) :
          /\ ~InitRaises(sts, initial_state)
          /\ Constructed(__init__(sts, initial_state, input_alphabet, output_alphabet))
    /\ pending = NoCall
    /\ ret = NoRet
    /\ calls = 0

\* a call of a method that returns nothing: r is its result
Mutate(op, args, r) ==
    /\ calls' = calls + 1
    /\ Assign(r.self)
    /\ ret' = Called(op, args, r.exc)
    /\ UNCHANGED pending

\* a call of a method that does not change the object
Query(result) ==
    /\ calls' = calls + 1
    /\ ret' = result
    /\ UNCHANGED <<object, pending>>

\* arguments: every name and symbol, declared in the object or not, and ""
StateArgs == StateNames \cup {""}
InArgs == InSyms \cup {""}
OutArgs == OutSyms \cup {""}

AddState ==
    /\ calls < MaxCalls
    /\ \E state \in StateNames : Mutate("add_state", <<state>>, add_state(Self, state))

AddInput ==
    /\ calls < MaxCalls
    /\ \E symbol \in InSyms : Mutate("add_input", <<symbol>>, add_input(Self, symbol))

AddOutput ==
    /\ calls < MaxCalls
    /\ \E symbol \in OutSyms : Mutate("add_output", <<symbol>>, add_output(Self, symbol))

SetInitialState ==
    /\ calls < MaxCalls
    /\ \E state \in StateArgs :
          Mutate("initial_state", <<state>>, set_initial_state(Self, state))

ResetInputsOrder ==
    /\ calls < MaxCalls
    /\ \E ordered \in SeqsUpTo(InSyms, Cardinality(InSyms)) :
          Mutate("reset_inputs_order", ordered, reset_inputs_order(Self, ordered))

ResetOutputsOrder ==
    /\ calls < MaxCalls
    /\ \E ordered \in SeqsUpTo(OutSyms, Cardinality(OutSyms)) :
          Mutate("reset_outputs_order", ordered, reset_outputs_order(Self, ordered))

AddToTransitions ==
    /\ calls < MaxCalls
    /\ \E input_symbol \in InArgs, input_state \in StateArgs, output_state \in StateArgs :
          Mutate("add_to_transitions", <<input_symbol, input_state, output_state>>,
                 add_to_transitions(Self, input_symbol, input_state, output_state))

AddToOutputFunction ==
    /\ calls < MaxCalls
    /\ \E input_symbol \in InArgs, input_state \in StateArgs, output_symbol \in OutArgs :
          Mutate("add_to_output_function", <<input_symbol, input_state, output_symbol>>,
                 add_to_output_function(Self, input_symbol, input_state, output_symbol))

WordsCall ==
    /\ calls < MaxCalls
    /\ \E length \in 0..MaxLen, prefix \in {<<>>, <<Foreign>>} :
          Query([Called("words", [length |-> length, prefix |-> prefix], "")
                    EXCEPT !.list = words(Self, length, prefix)])

Next ==
    \/ AddState \/ AddInput \/ AddOutput \/ SetInitialState
    \/ ResetInputsOrder \/ ResetOutputsOrder
    \/ AddToTransitions \/ AddToOutputFunction
    \/ WordsCall

Spec == Init /\ [][Next]_vars

(***************************************************************************)
(* The object of the first version: constructed over some of the states    *)
(* and symbols, changed by at most MaxCalls calls, and verified.  The rows *)
(* of its tables keep the order of the input alphabet the constructor was  *)
(* given, whatever the alphabet becomes: pending.args is that list.        *)
(***************************************************************************)
InitVerify ==
    /\ \E sts \in (SUBSET StateNames) \ {{}}, initial_state \in Names :
       \E input_alphabet \in SeqsUpTo(InSyms, 2), output_alphabet \in SeqsUpTo(OutSyms, 1) :
          /\ NoDup(input_alphabet)
          /\ ~InitRaises(sts, initial_state)
          /\ Constructed(legacy_init(sts, initial_state, input_alphabet,
                                     output_alphabet))
          /\ pending = [NoCall EXCEPT !.args = input_alphabet]
    /\ ret = NoRet
    /\ calls = 0

LegacyAddState ==
    /\ calls < MaxCalls
    /\ \E state \in StateNames :
          Mutate("legacy_add_state", <<state>>, legacy_add_state(Self, state))

LegacyAddInputSymbol ==
    /\ calls < MaxCalls
    /\ \E symbol \in InSyms :
          Mutate("legacy_add_input_symbol", <<symbol>>,
                 legacy_add_input_symbol(Self, symbol))

LegacyAddTransition ==
    /\ calls < MaxCalls
    /\ \E input_symbol \in InSyms, input_state \in StateNames,
          output_state \in StateNames, output_symbol \in OutSyms :
          Mutate("legacy_add_transition",
                 <<input_symbol, input_state, output_state, output_symbol>>,
                 legacy_add_transition(Self, input_symbol, input_state,
                                       output_state, output_symbol))

LegacyAddOutputSymbol ==
    /\ calls < MaxCalls
    /\ \E symbol \in OutSyms :
          Mutate("legacy_add_output_symbol", <<symbol>>,
                 legacy_add_output_symbol(Self, symbol))

LegacySetInitialState ==
    /\ calls < MaxCalls
    /\ \E state \in StateNames \cup {ForeignState} :
          Mutate("legacy_set_initial_state", <<state>>,
                 legacy_set_initial_state(Self, state))

LegacyResetInputOrder ==
    /\ calls < MaxCalls
    /\ \E ordered \in SeqsUpTo(InSyms, Cardinality(InSyms)) :
          Mutate("legacy_reset_input_order", ordered,
                 legacy_reset_input_order(Self, ordered))

LegacyResetOutputOrder ==
    /\ calls < MaxCalls
    /\ \E ordered \in SeqsUpTo(OutSyms, Cardinality(OutSyms)) :
          Mutate("legacy_reset_output_order", ordered,
                 legacy_reset_output_order(Self, ordered))

DetailedVerification ==
    /\ ret.op # "detailed_verificatin"
    /\ ret' = [Called("detailed_verificatin", <<>>, "")
                  EXCEPT !.errors = detailed_verificatin(Self, pending.args)]
    /\ UNCHANGED <<object, pending, calls>>

NextVerify ==
    \/ LegacyAddState \/ LegacyAddInputSymbol \/ LegacyAddOutputSymbol
    \/ LegacySetInitialState \/ LegacyResetInputOrder \/ LegacyResetOutputOrder
    \/ LegacyAddTransition \/ DetailedVerification

SpecVerify == InitVerify /\ [][NextVerify]_vars

(***************************************************************************)
(* Computing points: the object is a complete automaton over StateNames,   *)
(* InSyms and OutSyms; pending is the frame of one call of by_function,    *)
(* by_automata or curves, which runs iteration by iteration while another  *)
(* thread may set its cond.                                                *)
(***************************************************************************)
ComputeCalls ==
    {Frame("by_function", a) :
        a \in [func : Funcs, base : Bases, length : 0..MaxLen]}
    \cup {Frame("by_automata", a) :
        a \in [length : 0..MaxLen, prefix : Prefixes, suffix : Prefixes,
               last_state : StateNames \cup {""}]}
    \cup {Frame("curves", <<>>)}

InitCompute ==
    /\ \E initial_state \in StateNames :
       \E cell \in [StateNames -> [InSyms -> [s : StateNames, o : OutSyms]]] :
          LET a == __init__(StateNames, initial_state, sorted(InSyms), sorted(OutSyms))
          IN Constructed([a EXCEPT
                 !.transitions_ = [s \in StateNames |-> [i \in InSyms |-> cell[s][i].s]],
                 !.output_function_ = [s \in StateNames |-> [i \in InSyms |-> cell[s][i].o]]])
    /\ pending \in ComputeCalls
    \* by_function takes no automaton: one object stands for all
    /\ pending.op = "by_function" =>
          /\ initial_state_ = "A"
          /\ \A s \in StateNames, i \in InSyms :
                transitions_[s][i] = "A" /\ output_function_[s][i] = "0"
    /\ ret = NoRet
    /\ calls = 0

\* return (Points(x, y, xlim, ylim),)
ReturnPoints ==
    ret' = [Called(pending.op, pending.args, "")
               EXCEPT !.x = pending.x, !.y = pending.y]

\* return tuple(plots)
ReturnPlots ==
    ret' = [Called(pending.op, pending.args, "") EXCEPT !.list = pending.plots]

\* WorkerThread.stop: self.cond.set(), at any moment of the run
Cancel ==
    /\ ret = NoRet /\ ~pending.cond
    /\ pending' = [pending EXCEPT !.cond = TRUE]
    /\ UNCHANGED <<object, ret, calls>>

\* one iteration of the inner loop of by_function
FunctionIteration ==
    /\ ret = NoRet /\ pending.op = "by_function"
    /\ LET its == FunctionIterations(pending.args.base, pending.args.length, 0)
       IN /\ pending.k < Len(its)
          /\ IF pending.cond
             THEN ReturnPoints /\ UNCHANGED pending
             ELSE /\ pending' = FunctionAppend(pending, its[pending.k + 1])
                  /\ UNCHANGED ret
    /\ UNCHANGED <<object, calls>>

\* by_function after its loops
FunctionReturn ==
    /\ ret = NoRet /\ pending.op = "by_function"
    /\ pending.k = Len(FunctionIterations(pending.args.base, pending.args.length, 0))
    /\ ReturnPoints
    /\ UNCHANGED <<object, pending, calls>>

\* one iteration of the outer loop of by_automata: the call of
\* pairs_generator, then the loop over the pairs it yields, which tests cond
\* and calls automata.input_number, a method the class does not have
AutomataLength ==
    /\ ret = NoRet /\ pending.op = "by_automata"
    /\ LET lengths == AutomataLengths(pending.args.length)
       IN /\ pending.k < Len(lengths)
          /\ LET g == CallPairsGenerator(Self,
                         <<lengths[pending.k + 1], pending.args.prefix,
                           pending.args.suffix, pending.args.last_state>>)
             IN IF g.exc # ""
                THEN ret' = Called("by_automata", pending.args, g.exc)
                     /\ UNCHANGED pending
                ELSE IF g.list = <<>>
                THEN IF g.next_exc # ""
                     THEN ret' = Called("by_automata", pending.args, g.next_exc)
                          /\ UNCHANGED pending
                     ELSE pending' = [pending EXCEPT !.k = @ + 1] /\ UNCHANGED ret
                ELSE IF pending.cond
                THEN ReturnPoints /\ UNCHANGED pending
                ELSE ret' = Called("by_automata", pending.args, "AttributeError")
                     /\ UNCHANGED pending
    /\ UNCHANGED <<object, calls>>

\* by_automata after its loop
AutomataReturn ==
    /\ ret = NoRet /\ pending.op = "by_automata"
    /\ pending.k = Len(AutomataLengths(pending.args.length))
    /\ ReturnPoints
    /\ UNCHANGED <<object, pending, calls>>

\* one iteration of the loop of curves over the input symbols, up to the
\* loop over the samples (the automaton has a state, so x[0] exists)
CurvesSymbol ==
    /\ ret = NoRet /\ pending.op = "curves" /\ pending.i = 0
    /\ LET sorted_inputs == SortedInputs(Self)
           k == Cardinality(states)
       IN /\ pending.k < Len(sorted_inputs)
          /\ IF pending.cond
             THEN ReturnPlots /\ UNCHANGED pending
             ELSE LET r == read(Self, Repeat(sorted_inputs[pending.k + 1], k))
                  IN IF r.exc # ""
                     THEN ret' = Called("curves", pending.args, r.exc)
                          /\ UNCHANGED pending
                     ELSE /\ pending' = [pending EXCEPT !.i = 1, !.out_word = r.out]
                          /\ UNCHANGED ret
    /\ UNCHANGED <<object, calls>>

\* one iteration of the loop of curves over the samples; after the last
\* sample the curve is appended to plots
CurvesSample ==
    /\ ret = NoRet /\ pending.op = "curves" /\ pending.i >= 1
    /\ LET sorted_inputs == SortedInputs(Self)
           k == Cardinality(states)
       IN IF pending.cond
          THEN ReturnPlots /\ UNCHANGED pending
          ELSE /\ pending' =
                     IF pending.i < k
                     THEN [pending EXCEPT !.i = @ + 1]
                     ELSE [pending EXCEPT
                              !.i = 0, !.k = @ + 1, !.out_word = <<>>,
                              !.plots = Append(@,
                                  Curve(sorted_inputs[pending.k + 1],
                                        pending.out_word, Len(pending.plots) + 1))]
               /\ UNCHANGED ret
    /\ UNCHANGED <<object, calls>>

\* curves after its loop
CurvesReturn ==
    /\ ret = NoRet /\ pending.op = "curves" /\ pending.i = 0
    /\ pending.k = Len(SortedInputs(Self))
    /\ ReturnPlots
    /\ UNCHANGED <<object, pending, calls>>

NextCompute ==
    \/ Cancel
    \/ FunctionIteration \/ FunctionReturn
    \/ AutomataLength \/ AutomataReturn
    \/ CurvesSymbol \/ CurvesSample \/ CurvesReturn

SpecCompute == InitCompute /\ [][NextCompute]_vars

(***************************************************************************)
(* A Tab: pending holds its _thread, its workers and its open dialog.  The *)
(* clicks and the answers are handled by the GUI thread one at a time; a   *)
(* worker ends and is destroyed at any moment in between, also while the   *)
(* dialog is open.  A Tab creates at most MaxWorkers workers.              *)
(***************************************************************************)
\* the functions of draw_curves_click, draw_automata_click, draw_func_click
ClickFuncs == {"calc", "by_automata", "by_function"}

Replies == {"Yes", "No"}

InitTab ==
    /\ Constructed(__init__({}, "", <<>>, <<>>))
    /\ pending = NewTab
    /\ ret = NoRet
    /\ calls = 0

\* draw_curves_click, draw_automata_click or draw_func_click.  The handler
\* returns before start_computation (self.automata() gave no automaton, the
\* last state is incorrect, get_function raised one of the exceptions that
\* are caught), or an exception leaves it, which ends the process
\* (detailed_build raises in self.automata(), reset_inputs_order or
\* reset_outputs_order raises ValueError, get_function raises
\* ZeroDivisionError for an expression such as x + 1 // 0), or it calls
\* start_computation, modelled up to the dialog, and to its end when no
\* worker is running.
DrawClick ==
    /\ ~pending.crashed /\ pending.asking = ""
    /\ Len(pending.workers) < MaxWorkers
    /\ \E func \in ClickFuncs, outcome \in {"returns", "raises", "starts"} :
          pending' = CASE outcome = "returns" -> pending
                       [] outcome = "raises" -> [pending EXCEPT !.crashed = TRUE]
                       [] outcome = "starts" ->
                             IF MustConfirm(pending)
                             THEN [pending EXCEPT !.asking = func]
                             ELSE Launch(pending, func)
    /\ UNCHANGED <<object, ret, calls>>

\* the answer to the dialog and the rest of start_computation.  The
\* assignment to self._thread drops the reference to the worker it held; if
\* that worker is running, it goes on running (its run keeps the object) or,
\* when the QThread is destroyed with the reference, the process aborts.
Reply ==
    /\ ~pending.crashed /\ pending.asking # ""
    /\ \E reply \in Replies, survives \in BOOLEAN :
          LET tab == IF reply = "Yes" THEN stop_computation(pending) ELSE pending
          IN pending' = IF MustConfirm(tab) /\ ~survives
                        THEN [tab EXCEPT !.crashed = TRUE, !.asking = ""]
                        ELSE Launch(tab, pending.asking)
    /\ UNCHANGED <<object, ret, calls>>

\* a click on the stop button
StopClick ==
    /\ ~pending.crashed /\ pending.asking = ""
    /\ pending.op = "Tab"
    /\ pending' = stop_computation(pending)
    /\ UNCHANGED <<object, ret, calls>>

\* WorkerThread.run up to self.finished.emit(): the function returned,
\* result_ready and finished are emitted, the thread is still running; or
\* the function raised (each of the three can), nothing is emitted and the
\* exception leaves run, which ends the process
WorkerRun ==
    /\ ~pending.crashed /\ pending.op = "Tab"
    /\ \E w \in DOMAIN pending.workers, raises \in BOOLEAN :
          /\ pending.workers[w].state = "running"
          /\ raises => MayRaise(pending.workers[w].func)
          /\ pending' = IF raises
                        THEN [pending EXCEPT !.crashed = TRUE]
                        ELSE [pending EXCEPT !.workers[w].state = "emitted"]
    /\ UNCHANGED <<object, ret, calls>>

\* run returns and the thread ends: isFinished() from now on
WorkerReturns ==
    /\ ~pending.crashed /\ pending.op = "Tab"
    /\ \E w \in DOMAIN pending.workers :
          /\ pending.workers[w].state = "emitted"
          /\ pending' = [pending EXCEPT !.workers[w].state = "finished"]
    /\ UNCHANGED <<object, ret, calls>>

\* the queued deleteLater of a worker is carried out: destroyed is emitted
\* and on_destroyed runs, which drops the reference _thread holds.  Another
\* worker dropped so is deleted in the same step when its run has returned.
\* A QThread destroyed while it is running, the worker deleted or the one
\* dropped, either outlives it (Qt waits for a thread that is ending, a
\* running run keeps its object) or the process aborts.
WorkerDestroyed ==
    /\ ~pending.crashed /\ pending.op = "Tab"
    /\ \E w \in DOMAIN pending.workers, survives \in BOOLEAN :
          /\ DeleteQueued(pending, w)
          /\ LET other == pending._thread
                 dropped == other \notin {0, w}
                 running == \/ isRunning(pending, w)
                            \/ dropped /\ isRunning(pending, other)
                 gone == IF dropped /\ isFinished(pending, other)
                         THEN {w, other} ELSE {w}
             IN pending' =
                   IF running /\ ~survives
                   THEN [pending EXCEPT !.crashed = TRUE]
                   ELSE on_destroyed([pending EXCEPT !.workers =
                            [v \in DOMAIN @ |->
                                IF v \in gone THEN [@[v] EXCEPT !.state = "destroyed"]
                                ELSE @[v]]])
    /\ UNCHANGED <<object, ret, calls>>

NextTab ==
    \/ DrawClick \/ Reply \/ StopClick
    \/ WorkerRun \/ WorkerReturns \/ WorkerDestroyed

SpecTab == InitTab /\ [][NextTab]_vars

(***************************************************************************)
(* Properties of read and transition (SpecRead)                            *)
(***************************************************************************)
\* every declared state has a declared destination and a declared output
\* symbol for every declared input symbol
Covered(self) ==
    \A s \in self.states : \A a \in KeySet(self.inputs) :
       /\ HasKey(self.transitions_, s, a)
       /\ HasKey(self.output_function_, s, a)
       /\ self.transitions_[s][a] \in self.states
       /\ self.output_function_[s][a] \in KeySet(self.outputs)

FullyCovered(self) == Covered(self) /\ self.initial_state_ \in self.states

OverAlphabet(self, word) == Range(word) \subseteq KeySet(self.inputs)

IsRead == ret.op \in {"read", "legacy_read"}

\* C1: on a fully covered automaton with its initial state set, read(w)
\* returns, for every word w over the input alphabet, an output word of
\* exactly len(w) symbols.  Stated of both versions of read.
C1_ReadLength ==
    (IsRead /\ FullyCovered(Self) /\ OverAlphabet(Self, ret.args))
        => (ret.exc = "" /\ Len(ret.out) = Len(ret.args))

\* The same statement of read of the current package alone.
C1_ReadLengthCurrent ==
    (ret.op = "read" /\ FullyCovered(Self) /\ OverAlphabet(Self, ret.args))
        => (ret.exc = "" /\ Len(ret.out) = Len(ret.args))

\* s_0 = initial state, (s_i, o_i) = transition(w[i], s_(i-1))
RunState(self, word) ==
    LET s[i \in 0..Len(word)] ==
            IF i = 0 THEN self.initial_state_
            ELSE transition(self, word[i], s[i - 1]).s
    IN s

RunDefined(self, word) ==
    \A i \in 1..Len(word) :
       transition(self, word[i], RunState(self, word)[i - 1]).exc = ""

RunOutput(self, word) ==
    join([i \in 1..Len(word) |->
            transition(self, word[i], RunState(self, word)[i - 1]).o])

\* read returns exactly when every step of the fold is defined, and then
\* returns the concatenation o_1 ... o_n
ReadIsFold ==
    ret.op = "read" =>
        /\ ret.exc = "" <=> RunDefined(Self, ret.args)
        /\ ret.exc = "" => ret.out = RunOutput(Self, ret.args)

\* the automaton A-0->A/0, A-1->B/1, B-0->A/1, B-1->B/0 with initial state A
IsExample ==
    /\ states = {"A", "B"} /\ initial_state_ = "A"
    /\ KeySet(inputs) = {"0", "1"} /\ KeySet(outputs) = {"0", "1"}
    /\ transitions_ = [s \in {"A", "B"} |-> [a \in {"0", "1"} |->
                          IF a = "0" THEN "A" ELSE "B"]]
    /\ output_function_ = [s \in {"A", "B"} |-> [a \in {"0", "1"} |->
                          IF s = "A" THEN a ELSE IF a = "0" THEN "1" ELSE "0"]]

ExampleRead == IsExample /\ ret.op = "read" /\ ret.args = <<"1", "0", "1">>

\* C2 as stated: read(w) is the left-to-right fold of transition from the
\* initial state, and on the example automaton read("101") is "110".
C2_Original ==
    /\ ReadIsFold
    /\ ExampleRead => (ret.exc = "" /\ ret.out = <<"1", "1", "0">>)

\* C2 amended: read(w) of the current package is the left-to-right fold of
\* transition from the initial state, and on the example automaton
\* read("101") is "111".
C2_ReadIsFold ==
    /\ ReadIsFold
    /\ ExampleRead => (ret.exc = "" /\ ret.out = <<"1", "1", "1">>)

C2_Witness == ExampleRead /\ ret.exc = "" /\ Len(ret.out) = 3

\* the pair was never given a destination or never given an output symbol
NeverSet(self, state, symbol) ==
    \/ ~HasKey(self.transitions_, state, symbol)
    \/ ~HasKey(self.output_function_, state, symbol)
    \/ self.transitions_[state][symbol] = ""
    \/ self.output_function_[state][symbol] = ""

\* C9: transition(symbol, state) fails when the pair has never been set,
\* and never returns an empty next state or output symbol.
C9_TransitionFails ==
    ret.op \in {"transition", "legacy_transition"} =>
        /\ NeverSet(Self, ret.args[2], ret.args[1]) => ret.exc # ""
        /\ ret.exc = "" => (ret.out[1] # "" /\ ret.out[2] # "")

\* C10: on an automaton whose tables are fully covered, read(word) fails
\* if and only if word has a character outside the input alphabet or no
\* initial state is set.
C10_ReadFailsIff ==
    (IsRead /\ Covered(Self) /\ initial_state_ \in states \cup {""})
        => (ret.exc # "" <=>
               (~OverAlphabet(Self, ret.args) \/ initial_state_ = ""))

\* The cases of C10 in which each version of read departs from it.
C10_Current ==
    (ret.op = "read" /\ Covered(Self))
        => (ret.exc # "" <=>
               (~OverAlphabet(Self, ret.args)
                \/ (initial_state_ = "" /\ ret.args # <<>>)))

C10_Legacy ==
    (ret.op = "legacy_read" /\ Covered(Self))
        => (ret.exc # "" <=>
               (~OverAlphabet(Self, ret.args) \/ initial_state_ = ""
                \/ Range(ret.args) = KeySet(inputs)))

(***************************************************************************)
(* Properties of words and of the setters (Spec)                           *)
(***************************************************************************)
Rank(c) == GetV(inputs, c)

\* u comes before v in the lexicographic order of symbol rank, leftmost
\* symbol most significant
RankLess(u, v) ==
    \E j \in DOMAIN u :
       /\ \A i \in 1..(j - 1) : u[i] = v[i]
       /\ Rank(u[j]) < Rank(v[j])

WordsList(list, length, prefix) ==
    LET seq(m) == SubSeq(list[m], Len(prefix) + 1, Len(list[m]))
    IN /\ Len(list) = Pow(Len(inputs), length)
       /\ \A m \in DOMAIN list :
             /\ Len(list[m]) = Len(prefix) + length
             /\ SubSeq(list[m], 1, Len(prefix)) = prefix
             /\ Range(seq(m)) \subseteq KeySet(inputs)
       /\ \A m, n \in DOMAIN list : m < n => RankLess(seq(m), seq(n))

\* C3: words(length, prefix) yields k^length strings, each prefix followed
\* by one distinct element of the Cartesian power of the alphabet, in
\* lexicographic order of symbol rank, whatever calls ranked the alphabet;
\* for the alphabet 0, 1 words(2) yields 00, 01, 10, 11.
C3_WordsInRankOrder ==
    ret.op = "words" =>
        /\ WordsList(ret.list, ret.args.length, ret.args.prefix)
        /\ (Keys(inputs) = <<"0", "1">> /\ ret.args.length = 2
              /\ ret.args.prefix = <<>>)
           => ret.list = << <<"0", "0">>, <<"0", "1">>, <<"1", "0">>, <<"1", "1">> >>

\* words enumerated after an earlier call, over an alphabet in which 1 is
\* ranked before 0
C3_Witness ==
    /\ ret.op = "words" /\ ret.args.length = 2 /\ ret.args.prefix = <<>>
    /\ calls = 2
    /\ Has(inputs, "0") /\ Has(inputs, "1") /\ Rank("1") < Rank("0")
    /\ ret.list = << <<"1", "1">>, <<"1", "0">>, <<"0", "1">>, <<"0", "0">> >>

IsSetter(r) == r.op \in {"add_to_transitions", "add_to_output_function"}

\* an argument of the setter call r that is not a declared member of the
\* model: input symbol, source state, destination state or output symbol
Undeclared(r) ==
    \/ ~Has(inputs, r.args[1])
    \/ r.args[2] \notin states
    \/ r.op = "add_to_transitions" /\ r.args[3] \notin states
    \/ r.op = "add_to_output_function" /\ ~Has(outputs, r.args[3])

\* the entry the setter call r is about holds the value of the call
Stored(r, trans, outf) ==
    IF r.op = "add_to_transitions"
    THEN HasKey(trans, r.args[2], r.args[1]) /\ trans[r.args[2]][r.args[1]] = r.args[3]
    ELSE HasKey(outf, r.args[2], r.args[1]) /\ outf[r.args[2]][r.args[1]] = r.args[3]

\* C8: add_to_transitions and add_to_output_function fail whenever an
\* argument is not a declared member of the model (the empty string
\* included); a failed call leaves both tables unchanged and a call with
\* declared arguments overwrites the entry.
C8_SettersReject ==
    [][(IsSetter(ret') /\ calls' = calls + 1) =>
          /\ Undeclared(ret') => ret'.exc # ""
          /\ ret'.exc # "" => UNCHANGED <<transitions_, output_function_>>
          /\ ~Undeclared(ret') =>
                (ret'.exc = "" /\ Stored(ret', transitions_', output_function_'))]_vars

\* What the setters do: an empty argument is not tested.
C8_SettersAsCoded ==
    [][(IsSetter(ret') /\ calls' = calls + 1) =>
          /\ (Undeclared(ret') /\ \A i \in 1..3 : ret'.args[i] # "")
                => ret'.exc # ""
          /\ ret'.exc # "" => UNCHANGED <<transitions_, output_function_>>
          /\ ret'.exc = "" => Stored(ret', transitions_', output_function_')]_vars

IsAdd(r) == r.op \in {"add_state", "add_input", "add_output"}

\* the state or symbol that the call r adds is already declared
AlreadyDeclared(r) ==
    \/ r.op = "add_state" /\ r.args[1] \in states
    \/ r.op = "add_input" /\ Has(inputs, r.args[1])
    \/ r.op = "add_output" /\ Has(outputs, r.args[1])

\* a new symbol gets rank = previous symbol count + 1
NewRank(r) ==
    /\ r.op = "add_input" =>
          (Has(inputs', r.args[1]) /\ GetV(inputs', r.args[1]) = Len(inputs) + 1)
    /\ r.op = "add_output" =>
          (Has(outputs', r.args[1]) /\ GetV(outputs', r.args[1]) = Len(outputs) + 1)

\* C11: add_state, add_input and add_output with a state or symbol that is
\* already declared leave the states, the ranks and every table entry
\* unchanged; a new symbol gets rank = previous symbol count + 1.
C11_AddIdempotent ==
    [][(IsAdd(ret') /\ calls' = calls + 1) =>
          /\ ret'.exc = ""
          /\ AlreadyDeclared(ret') => UNCHANGED object
          /\ ~AlreadyDeclared(ret') => NewRank(ret')]_vars

\* The same of add_input and add_output alone.
C11_AddSymbolIdempotent ==
    [][(ret'.op \in {"add_input", "add_output"} /\ calls' = calls + 1) =>
          /\ ret'.exc = ""
          /\ AlreadyDeclared(ret') => UNCHANGED object
          /\ ~AlreadyDeclared(ret') => NewRank(ret')]_vars


IsReset(r) == r.op \in {"reset_inputs_order", "reset_outputs_order"}

\* the alphabet that the call r re-orders, taken from the pair of alphabets
AlphabetOf(r, ins, outs) == IF r.op = "reset_inputs_order" THEN ins ELSE outs

\* ordered names every symbol of the alphabet once and nothing else
IsPermutation(ordered, alphabet) ==
    /\ NoDup(ordered)
    /\ Range(ordered) = KeySet(alphabet)

\* the ranks of the alphabet are a bijection onto 1..k
RanksBijective(alphabet) ==
    /\ NoDup(Keys(alphabet))
    /\ {alphabet[i].v : i \in DOMAIN alphabet} = 1..Len(alphabet)

\* C12: reset_inputs_order(ordered) and reset_outputs_order(ordered)
\* succeed if and only if ordered is a permutation of the current alphabet;
\* a failed call leaves the ranks unchanged, and after a successful call
\* the symbol at position i (0-based) of ordered has rank i+1, the ranks
\* being a bijection onto 1..k.
C12_ResetOrder ==
    [][(IsReset(ret') /\ calls' = calls + 1) =>
          /\ ret'.exc = "" <=>
                IsPermutation(ret'.args, AlphabetOf(ret', inputs, outputs))
          /\ ret'.exc # "" => UNCHANGED <<inputs, outputs>>
          /\ ret'.exc = "" =>
                LET new == AlphabetOf(ret', inputs', outputs')
                IN /\ KeySet(new) = Range(ret'.args)
                   /\ \A i \in DOMAIN ret'.args : GetV(new, ret'.args[i]) = i
                   /\ RanksBijective(new)]_vars

\* the outputs were re-ordered into 1, 0: rank 1 for "1", rank 2 for "0"
C12_Witness ==
    /\ ret.op = "reset_outputs_order" /\ ret.exc = ""
    /\ ret.args = <<"1", "0">>
    /\ GetV(outputs, "1") = 1 /\ GetV(outputs, "0") = 2

(***************************************************************************)
(* Properties of to_number (SpecNumber)                                    *)
(***************************************************************************)
\* the sum over i = 1..n of rank(word[i]) * base^(n - i): the numerator of
\* the sum of rank(word[i]) / base^i over the denominator base^n
RECURSIVE LeftWeighted(_, _, _)
LeftWeighted(word, base, i) ==
    IF i > Len(word) THEN 0
    ELSE GetV(inputs, word[i]) * Pow(base, Len(word) - i)
         + LeftWeighted(word, base, i + 1)

\* the sum over i = 1..n of rank(word[n + 1 - i]) * base^(n - i): the
\* numerator of the sum of rank(word[n + 1 - i]) / base^(i - 1) over the
\* denominator base^(n - 1)
RECURSIVE RightWeighted(_, _, _)
RightWeighted(word, base, i) ==
    IF i > Len(word) THEN 0
    ELSE GetV(inputs, word[Len(word) + 1 - i]) * Pow(base, Len(word) - i)
         + RightWeighted(word, base, i + 1)

SameNumber(x, num, den) == x.num * den = num * x.den

\* C14: for a word of length n over the input alphabet of size k,
\* to_number(word) is the sum over i = 1..n of rank(word[i]) / base^i with
\* base = k + 1, word[i] counted from the left.
C14_Original ==
    (ret.op = "to_number" /\ OverAlphabet(Self, ret.args)) =>
        /\ ret.exc = ""
        /\ SameNumber(ret.number, LeftWeighted(ret.args, Len(inputs) + 1, 1),
                      Pow(Len(inputs) + 1, Len(ret.args)))

\* C14 amended: for a word of length n over the input alphabet of size k,
\* to_number(word) of the current package is the sum over i = 1..n of
\* rank(word[n + 1 - i]) / base^(i - 1) with base = k + 1: the rightmost
\* symbol carries the weight 1 and the leftmost the weight 1 / base^(n - 1).
C14_ToNumber ==
    (ret.op = "to_number" /\ OverAlphabet(Self, ret.args)) =>
        /\ ret.exc = ""
        /\ ret.args # <<>> =>
              SameNumber(ret.number, RightWeighted(ret.args, Len(inputs) + 1, 1),
                         Pow(Len(inputs) + 1, Len(ret.args) - 1))
        /\ ret.args = <<>> => ret.number.num = 0

\* to_number of the first version gives a value for the empty word alone.
C14_Legacy ==
    ret.op = "legacy_to_number" =>
        (ret.exc = "" => (ret.args = <<>> /\ ret.number.num = 0))

\* ranks 1 -> 1, 0 -> 2 and the word 10: 2 / 3^0 + 1 / 3^1 = 7/3
C14_Witness ==
    /\ ret.op = "to_number" /\ ret.exc = ""
    /\ Keys(inputs) = <<"1", "0">> /\ ret.args = <<"1", "0">>
    /\ SameNumber(ret.number, 7, 3)

(***************************************************************************)
(* Properties of re-ordering and of pairs_generator (SpecWords)            *)
(***************************************************************************)
SelfNext ==
    [states |-> states', initial_state_ |-> initial_state_',
     inputs |-> inputs', outputs |-> outputs',
     transitions_ |-> transitions_', output_function_ |-> output_function_']

\* the object with the input symbols ranked 1.. in the order of ordered
RankedBy(self, ordered) ==
    [self EXCEPT !.inputs = [i \in DOMAIN ordered |-> [k |-> ordered[i], v |-> i]]]

\* C13: reset_inputs_order and reset_outputs_order with a permutation
\* change only ranks: the states, the initial state and every table entry
\* are unchanged, read(w) returns the same output word as before for every
\* word w, and to_number(w) is computed from the new ranks.
C13_ReorderFrame ==
    [][(IsReset(ret') /\ ret = NoRet /\ ret'.exc = "") =>
          /\ UNCHANGED <<states, initial_state_, transitions_, output_function_>>
          /\ \A w \in Words :
                /\ read(SelfNext, w) = read(Self, w)
                /\ to_number(SelfNext, w) =
                      IF ret'.op = "reset_inputs_order"
                      THEN to_number(RankedBy(Self, ret'.args), w)
                      ELSE to_number(Self, w)]_vars

\* a fully covered automaton whose input symbols were re-ordered into 1, 0
C13_Witness ==
    /\ ret.op = "reset_inputs_order" /\ ret.exc = "" /\ ret.args = <<"1", "0">>
    /\ FullyCovered(Self)
    /\ read(Self, <<"1", "0">>).exc = ""
    /\ to_number(Self, <<"1">>).number = Fraction(1, 1)

IsPairs == ret.op = "pairs_generator"

\* the pair (w, read(w)) of every word of words(length, prefix), in order
AllPairs ==
    LET ws == words(Self, ret.args.length, ret.args.input_prefix)
    IN [m \in DOMAIN ws |-> [in_word |-> ws[m], out_word |-> read(Self, ws[m]).out]]

\* the run of the word of pair p is in state t after its last symbol
EndsIn(p, t) == RunState(Self, p.in_word)[Len(p.in_word)] = t

\* the run of the word of pair p is in state t before its last symbol
EndsBefore(p, t) ==
    p.in_word # <<>> /\ RunState(Self, p.in_word)[Len(p.in_word) - 1] = t

\* C15: for a non-empty declared terminal state t, pairs_generator(length,
\* prefix, t) yields (w, read(w)) for exactly the enumerated words w whose
\* run from the initial state is in t after the last symbol of w.
C15_PairsFilter ==
    (IsPairs /\ FullyCovered(Self) /\ ret.args.last_state \in states) =>
        LET Kept(p) == EndsIn(p, ret.args.last_state)
        IN /\ ret.exc = "" /\ ret.next_exc = ""
           /\ ret.list = SelectSeq(AllPairs, Kept)

\* What pairs_generator yields: the pairs of the words whose run is in t
\* before the last symbol; the empty word ends the iteration by IndexError.
C15_PairsAsCoded ==
    (IsPairs /\ FullyCovered(Self) /\ ret.args.last_state \in states) =>
        LET Kept(p) == EndsBefore(p, ret.args.last_state)
        IN /\ ret.exc = ""
           /\ ret.next_exc = "" => ret.list = SelectSeq(AllPairs, Kept)
           /\ ret.next_exc # "" <=>
                 (ret.args.length = 0 /\ ret.args.input_prefix = <<>>)

\* C16: pairs_generator fails if and only if the terminal state is
\* non-empty and not a declared state, and it fails at the call, before a
\* pair is asked for; with the empty terminal state it never fails and
\* yields one pair (w, read(w)) for every word of words(length, prefix), in
\* the same order.
C16_PairsFails ==
    (IsPairs /\ FullyCovered(Self)) =>
        /\ (ret.exc # "" \/ ret.next_exc # "") <=>
              (ret.args.last_state # "" /\ ret.args.last_state \notin states)
        /\ ret.next_exc = ""
        /\ ret.args.last_state = "" => ret.list = AllPairs

\* What pairs_generator does with a terminal state that is no declared
\* state, the empty one included: the call returns and the first request
\* for a pair raises ValueError.
C16_PairsAsCoded ==
    (IsPairs /\ ret.args.last_state \notin states) =>
        (ret.exc = "" /\ ret.next_exc = "ValueError" /\ ret.list = <<>>)

(***************************************************************************)
(* Properties of padic_to_geom (SpecGeom)                                  *)
(***************************************************************************)
IsGeom == ret.op \in {"padic_to_geom", "calculate_padic_to_geom"}

\* 0 <= num < base^n
InRange(a) == 0 <= a.num /\ a.num < Pow(a.base, a.n)

\* digit j of num in base base, digit 0 the least significant
Digit(num, base, j) == (num \div Pow(base, j)) % base

\* the sum over i = 0..n-1 of (d + 1) / (base + 1)^i, d being digit
\* order[i] of num, brought to the denominator (base + 1)^(n - 1)
RECURSIVE DigitSum(_, _, _, _, _)
DigitSum(num, base, order, i, n) ==
    IF i >= n THEN 0
    ELSE (Digit(num, base, order[i]) + 1) * Pow(base + 1, n - 1 - i)
         + DigitSum(num, base, order, i + 1, n)

Orderings(n) ==
    {f \in [0..(n - 1) -> 0..(n - 1)] :
        \A i, j \in 0..(n - 1) : f[i] = f[j] => i = j}

\* the value is a sum of n terms (d + 1) / (base + 1)^i, i = 0..n-1, in
\* which each of the n digits of num is used exactly once
UsesEachDigitOnce(a, value) ==
    IF a.n = 0 THEN value.num = 0
    ELSE \E order \in Orderings(a.n) :
            SameNumber(value, DigitSum(a.num, a.base, order, 0, a.n),
                       Pow(a.base + 1, a.n - 1))

\* C17: for 0 <= num < base^n, padic_to_geom(num, n, base) is a sum of
\* exactly n terms (d + 1) / (base + 1)^i, i = 0..n-1, in which each of the
\* n base-base digits of num is used exactly once (bases 2, 3 and 4).
C17_DigitsUsedOnce ==
    (IsGeom /\ InRange(ret.args)) => UsesEachDigitOnce(ret.args, ret.number)

\* The same of compute.padic_to_geom for the bases 2 and 3.
C17_DigitsUsedOnceBinaryOdd ==
    (ret.op = "padic_to_geom" /\ InRange(ret.args) /\ ret.args.base \in {2, 3})
        => UsesEachDigitOnce(ret.args, ret.number)

\* C18: two different integers in [0, base^n) never get the same value
\* padic_to_geom(num, n, base), for every base in 2, 3, 4: the digits of
\* num can be read back from the value.
C18_RoundTrip ==
    (ret.op = "padic_to_geom" /\ InRange(ret.args)) =>
        \A other \in 0..(Pow(ret.args.base, ret.args.n) - 1) :
           other # ret.args.num =>
              ~SameNumber(padic_to_geom(other, ret.args.n, ret.args.base),
                          ret.number.num, ret.number.den)

\* The same for the bases 2 and 3.
C18_RoundTripBinaryOdd ==
    (ret.op = "padic_to_geom" /\ InRange(ret.args) /\ ret.args.base \in {2, 3}) =>
        \A other \in 0..(Pow(ret.args.base, ret.args.n) - 1) :
           other # ret.args.num =>
              ~SameNumber(padic_to_geom(other, ret.args.n, ret.args.base),
                          ret.number.num, ret.number.den)

(***************************************************************************)
(* Properties of parse_expression (SpecParse)                              *)
(***************************************************************************)
IsParse == ret.op = "parse_expression"

Expr == ret.args.expression

IsDivision == Expr.node = "BinOp" /\ Expr.op = "Div"
IsShift == Expr.node = "BinOp" /\ Expr.op \in {"LShift", "RShift"}

\* the tree names a variable
RECURSIVE Mentions(_)
Mentions(node) ==
    CASE node.node = "Name" -> TRUE
      [] node.node = "Constant" -> FALSE
      [] node.node = "UnaryOp" -> Mentions(node.operand)
      [] node.node = "BinOp" -> Mentions(node.left) \/ Mentions(node.right)

\* The integer a tree without variables stands for; 0 where this model
\* gives it none (a division, a negation by "not", a floor division by 0).
RECURSIVE ValueOf(_)
ValueOf(node) ==
    CASE node.node = "Constant" -> node.value
      [] node.node = "UnaryOp" /\ node.op = "USub" -> 0 - ValueOf(node.operand)
      [] node.node = "BinOp" /\ node.op = "Add" ->
            ValueOf(node.left) + ValueOf(node.right)
      [] node.node = "BinOp" /\ node.op = "Sub" ->
            ValueOf(node.left) - ValueOf(node.right)
      [] node.node = "BinOp" /\ node.op = "Mult" ->
            ValueOf(node.left) * ValueOf(node.right)
      [] node.node = "BinOp" /\ node.op = "FloorDiv" /\ ValueOf(node.right) # 0 ->
            PyFloorDiv(ValueOf(node.left), ValueOf(node.right))
      [] node.node = "BinOp" /\ node.op = "LShift" /\ ValueOf(node.right) >= 0 ->
            ValueOf(node.left) * Pow(2, ValueOf(node.right))
      [] node.node = "BinOp" /\ node.op = "RShift" /\ ValueOf(node.right) >= 0 ->
            FloorDiv(ValueOf(node.left), Pow(2, ValueOf(node.right)))
      [] OTHER -> 0

\* the operand compiles on its own: parse returns for it, and it folds
Compiles(node) == Completed(Operand(parse(node, {"x"}, ret.args.base)))

OperandsCompile == Compiles(Expr.left) /\ Compiles(Expr.right)

Accepted == ret.exc = "" /\ ~ret.hangs

Fails(msg) == ret.exc = "ExpressionError" /\ ret.msg = msg /\ ~ret.hangs

\* C19: a division whose operands compile fails with the division error
\* when the divisor contains the variable or is a multiple of base, and
\* otherwise parse_expression returns a string without the operator "/".
C19_DivisionCompiles ==
    (IsParse /\ IsDivision /\ OperandsCompile) =>
        IF Mentions(Expr.right) \/ ValueOf(Expr.right) % ret.args.base = 0
        THEN Fails("Incorrect division")
        ELSE Accepted /\ "/" \notin Range(ret.out)

\* What the code does with such a division: where the division error is not
\* raised, frac_to_padic is entered and the call does not return.
C19_DivisionAsCoded ==
    (IsParse /\ IsDivision /\ OperandsCompile) =>
        IF Mentions(Expr.right) \/ ValueOf(Expr.right) % ret.args.base = 0
        THEN Fails("Incorrect division")
        ELSE ret.hangs

\* frac_to_padic returns no number: it does not return or raises TypeError.
C19_FracToPadicNoNumber ==
    ret.op = "frac_to_padic" => (ret.hangs \/ ret.exc = "TypeError")

\* C20: a shift whose operands compile is accepted exactly when its right
\* operand is free of the variable and has the value 1, then rendered as the
\* literal 1, and fails with the shift error otherwise; no shift at all is
\* accepted with another right operand.
C20_ShiftByOne ==
    (IsParse /\ IsShift) =>
        /\ Accepted => (~Mentions(Expr.right) /\ ValueOf(Expr.right) = 1
                           /\ OperandsCompile)
        /\ OperandsCompile =>
              IF ~Mentions(Expr.right) /\ ValueOf(Expr.right) = 1
              THEN Accepted /\ SubSeq(ret.out, Len(ret.out) - 1, Len(ret.out))
                                  = <<"1", ")">>
              ELSE Fails("Incorrect shift")

\* "x << 1" compiled for base 2
C20_Witness ==
    /\ IsParse /\ Accepted
    /\ ret.args.base = 2
    /\ Expr = [node |-> "BinOp", op |-> "LShift",
               left |-> [node |-> "Name", id |-> "x"],
               right |-> [node |-> "Constant", value |-> 1]]
    /\ ret.out = <<"(", "x", " ", "<<", " ", "1", ")">>

\* "x << 2" refused for base 2
C20_Refused ==
    /\ IsParse /\ Fails("Incorrect shift")
    /\ ret.args.base = 2
    /\ Expr = [node |-> "BinOp", op |-> "LShift",
               left |-> [node |-> "Name", id |-> "x"],
               right |-> [node |-> "Constant", value |-> 2]]

\* the greatest common divisor of two positive integers
RECURSIVE Gcd(_, _)
Gcd(a, b) == IF b = 0 THEN a ELSE Gcd(b, a % b)

\* C26: frac_to_padic(1, denom, base) returns for every denom >= 1 that
\* shares no factor with base, and so does parse_expression for a division
\* by such a denom whose operands compile.
C26_FracToPadicReturns ==
    /\ (ret.op = "frac_to_padic" /\ ret.args.numer = 1
           /\ Gcd(ret.args.denom, ret.args.base) = 1) =>
          (~ret.hangs /\ ret.exc = "")
    /\ (IsParse /\ IsDivision /\ OperandsCompile /\ ~Mentions(Expr.right)
           /\ ValueOf(Expr.right) >= 1
           /\ Gcd(ValueOf(Expr.right), ret.args.base) = 1) =>
          Accepted

\* What the code does: with numer = 1 the call never returns, whatever denom.
C26_FracToPadicAsCoded ==
    (ret.op = "frac_to_padic" /\ ret.args.numer = 1) => ret.hangs

(***************************************************************************)
(* Properties of detailed_build (SpecBuild)                                *)
(***************************************************************************)
IsBuild == ret.op = "detailed_build"

Desc == pending.args
TMap == Desc.transitions
OMap == Desc.output_function
DescStates == KeySet(TMap) \cup KeySet(OMap)
DescInputs == Firsts(TMap) \cup Firsts(OMap)

SameStateSets == KeySet(TMap) = KeySet(OMap)

\* the list of state s in a map, empty when the map has no such state
ListOf(map, s) == IF Has(map, s) THEN GetV(map, s) ELSE <<>>

Symbols(list) == {list[i][1] : i \in DOMAIN list}

\* the list names the same input symbol twice
Repeats(list) ==
    \E i, j \in DOMAIN list : i < j /\ list[i][1] = list[j][1]

\* ... twice with different destinations
Ambiguous(list) ==
    \E i, j \in DOMAIN list :
       i < j /\ list[i][1] = list[j][1] /\ list[i][2] # list[j][2]

\* the symbols of the alphabet that the list of s in the map does not cover
Gap(map, s) == DescInputs \ Symbols(ListOf(map, s))

NonEmptyNames == "" \notin Seconds(TMap)

ErrorsOf(kind, state) ==
    {j \in DOMAIN ret.errors :
        ret.errors[j].kind = kind /\ ret.errors[j].state = state}

\* C4: a model that detailed_build returns is complete and closed: every
\* entry of the transition table is a declared state and every entry of the
\* output table a declared output symbol.
C4_ModelComplete ==
    (IsBuild /\ ret.model # None) => Covered(ret.model)

\* The same for descriptions in which no destination is the empty string.
C4_ModelCompleteNamed ==
    (IsBuild /\ ret.model # None /\ NonEmptyNames) => Covered(ret.model)

\* same state sets, no repeated input symbol, no uncovered input symbol
C5_Accepted ==
    /\ SameStateSets
    /\ \A s \in DescStates :
          /\ ~Repeats(ListOf(TMap, s)) /\ ~Repeats(ListOf(OMap, s))
          /\ Gap(TMap, s) = {} /\ Gap(OMap, s) = {}

\* C5: detailed_build returns (model, []) exactly when the description has
\* the same state set in both maps, no state with a repeated input symbol
\* and no state with an uncovered input symbol, and (None, errors) with a
\* non-empty error list in every other case, whether or not initial_state
\* is empty.
C5_BuildAccepts ==
    IsBuild =>
        /\ ret.exc = ""
        /\ IF C5_Accepted THEN ret.model # None /\ ret.errors = <<>>
                          ELSE ret.model = None /\ ret.errors # <<>>

\* the list names an input symbol again after an entry that gave it a
\* non-empty second component: the test of has_in_transitions and of
\* has_in_output_function finds the earlier entry
RepeatsSet(list) ==
    \E i, j \in DOMAIN list :
       i < j /\ list[i][1] = list[j][1] /\ list[i][2] # ""

\* What the code accepts: a model is returned exactly when the two maps
\* have the same state set, initial_state is non-empty and one of the states
\* (or there is no state), no output list is empty, every non-empty
\* destination is a state, no state has an uncovered input symbol and no
\* state names an input symbol again after an entry that gave it a non-empty
\* destination or output symbol; in every other case the call returns
\* (None, errors) with a non-empty error list, or raises.
C5_BuildAsCoded ==
    IsBuild =>
        /\ ret.model # None <=>
              /\ SameStateSets
              /\ Desc.initial_state # ""
              /\ Desc.initial_state \in DescStates \/ DescStates = {}
              /\ \A k \in DOMAIN OMap : OMap[k].v # <<>>
              /\ Seconds(TMap) \ {""} \subseteq DescStates
              /\ \A s \in DescStates :
                    /\ Gap(TMap, s) = {} /\ Gap(OMap, s) = {}
                    /\ ~RepeatsSet(ListOf(OMap, s))
                    /\ ~RepeatsSet(ListOf(TMap, s))
        /\ ret.model # None => (ret.exc = "" /\ ret.errors = <<>>)
        /\ (ret.model = None /\ ret.exc = "") => ret.errors # <<>>

\* the destination that the first entry for symbol a in list gives
FirstDestination(list, a) ==
    list[CHOOSE i \in DOMAIN list :
            list[i][1] = a /\ \A j \in 1..(i - 1) : list[j][1] # a][2]

\* the table of the automaton that the call built holds, for every symbol
\* state s lists, the destination of the first entry for it
FirstKept(s) ==
    \A a \in Symbols(ListOf(TMap, s)) :
       /\ HasKey(ret.automata.transitions_, s, a)
       /\ ret.automata.transitions_[s][a] = FirstDestination(ListOf(TMap, s), a)

\* the first non-empty destination that list gives for symbol a, the empty
\* string when it gives none
FirstSetDestination(list, a) ==
    LET given == {i \in DOMAIN list : list[i][1] = a /\ list[i][2] # ""}
    IN IF given = {} THEN ""
       ELSE list[CHOOSE i \in given : \A j \in given : i <= j][2]

FirstSetKept(s) ==
    \A a \in Symbols(ListOf(TMap, s)) :
       /\ HasKey(ret.automata.transitions_, s, a)
       /\ ret.automata.transitions_[s][a] = FirstSetDestination(ListOf(TMap, s), a)

\* the list names an input symbol twice with different destinations, the
\* first of them non-empty
AmbiguousSet(list) ==
    \E i, j \in DOMAIN list :
       /\ i < j /\ list[i][1] = list[j][1]
       /\ list[i][2] # list[j][2] /\ list[i][2] # ""

\* C6: a state that lists the same input symbol twice with different
\* destinations in the transition map makes detailed_build return None as
\* the model and an error list with an ambiguity error naming the state,
\* and the second occurrence is not installed: the table keeps the first
\* destination.
C6_AmbiguityReported ==
    IsBuild =>
        \A s \in DescStates : Ambiguous(ListOf(TMap, s)) =>
           /\ ret.exc = "" /\ ret.model = None
           /\ ErrorsOf("repeated", s) # {}
           /\ FirstKept(s)

\* What the code does for such a state: when the first of the two
\* destinations is non-empty no model is returned; the ambiguity error for
\* the state is reported when the two maps have the same state set and the
\* call does not raise, which it does not when no output list is empty,
\* initial_state is empty or a state and every non-empty destination is a
\* state.  Every symbol of a state keeps the first non-empty destination
\* listed for it (an empty destination is replaced by a later entry).  When
\* the state sets differ only the state-set errors are reported.
C6_AmbiguityAsCoded ==
    IsBuild =>
        \A s \in DescStates :
           /\ AmbiguousSet(ListOf(TMap, s)) =>
                 /\ ret.model = None
                 /\ (SameStateSets /\ ret.exc = "") => ErrorsOf("repeated", s) # {}
                 /\ (/\ \A k \in DOMAIN OMap : OMap[k].v # <<>>
                     /\ ~InitRaises(DescStates, Desc.initial_state)
                     /\ Seconds(TMap) \ {""} \subseteq DescStates) => ret.exc = ""
           /\ (SameStateSets /\ ret.exc = "") => FirstSetKept(s)
           /\ (~SameStateSets /\ ret.exc = "") =>
                 \A j \in DOMAIN ret.errors :
                    ret.errors[j].kind \in {"no_initial_state",
                        "missing_in_transitions", "missing_in_outputs"}

\* C7: a state whose transition entries cover a strict subset of the input
\* alphabet makes detailed_build return no model and exactly one
\* missing-transition error for the state, listing exactly the uncovered
\* symbols.
C7_MissingReported ==
    IsBuild =>
        \A s \in DescStates : Gap(TMap, s) # {} =>
           /\ ret.exc = "" /\ ret.model = None
           /\ Cardinality(ErrorsOf("misses", s)) = 1
           /\ \A j \in ErrorsOf("misses", s) : ret.errors[j].names = Gap(TMap, s)

\* What the code reports: for a state whose transition entries or output
\* entries do not cover the input alphabet no model is returned; when the
\* two maps have the same state set and the call does not raise, the error
\* list has exactly one missing-transition error for the state, listing the
\* symbols its output entries do not cover or, if these cover the alphabet,
\* the symbols its transition entries do not cover (line 228 replaces what
\* line 217 recorded); a state without a gap gets no such error, and none
\* is reported when the state sets differ.
C7_MissingAsCoded ==
    IsBuild =>
        \A s \in DescStates :
           /\ (Gap(TMap, s) # {} \/ Gap(OMap, s) # {}) => ret.model = None
           /\ (SameStateSets /\ ret.exc = "") =>
                 IF Gap(TMap, s) # {} \/ Gap(OMap, s) # {}
                 THEN /\ Cardinality(ErrorsOf("misses", s)) = 1
                      /\ \A j \in ErrorsOf("misses", s) :
                            ret.errors[j].names =
                               IF Gap(OMap, s) # {} THEN Gap(OMap, s)
                                                    ELSE Gap(TMap, s)
                 ELSE ErrorsOf("misses", s) = {}
           /\ (~SameStateSets /\ ret.exc = "") => ErrorsOf("misses", s) = {}

\* C24: detailed_build never raises: every call returns a pair.
C24_BuildNeverRaises == IsBuild => ret.exc = ""

\* When the code raises: an output list is empty, the constructor refuses
\* initial_state, a destination is no state, or an input symbol is named
\* again after an entry that gave it a non-empty output symbol while no
\* transition entry was seen; and then only.
C24_BuildRaisesWhen ==
    IsBuild =>
        (ret.exc # "" <=>
            \/ \E k \in DOMAIN OMap : OMap[k].v = <<>>
            \/ InitRaises(DescStates, Desc.initial_state)
            \/ /\ SameStateSets
               /\ \/ \E s \in DescStates : \E i \in DOMAIN ListOf(TMap, s) :
                        /\ ListOf(TMap, s)[i][2] \notin DescStates \cup {""}
                        /\ \A j \in 1..(i - 1) :
                              ListOf(TMap, s)[j][1] = ListOf(TMap, s)[i][1]
                                 => ListOf(TMap, s)[j][2] = ""
                  \/ /\ \A k \in DOMAIN TMap : TMap[k].v = <<>>
                     /\ \E s \in DescStates : RepeatsSet(ListOf(OMap, s)))

\* C25: the ambiguity errors of a call that returns, for a description
\* whose maps have the same states, name exactly the states that list an
\* input symbol more than once in their transition or output entries, one
\* error for each.
C25_AmbiguityExact ==
    (IsBuild /\ ret.exc = "" /\ SameStateSets /\ NonEmptyNames) =>
        \A s \in DescStates :
           IF Repeats(ListOf(TMap, s)) \/ Repeats(ListOf(OMap, s))
           THEN Cardinality(ErrorsOf("repeated", s)) = 1
           ELSE ErrorsOf("repeated", s) = {}

\* The same for descriptions that repeat no input symbol in an output list.
C25_AmbiguityExactTransitions ==
    (IsBuild /\ ret.exc = "" /\ SameStateSets /\ NonEmptyNames
        /\ \A s \in DescStates : ~Repeats(ListOf(OMap, s))) =>
        \A s \in DescStates :
           IF Repeats(ListOf(TMap, s))
           THEN Cardinality(ErrorsOf("repeated", s)) = 1
           ELSE ErrorsOf("repeated", s) = {}

(***************************************************************************)
(* Properties of detailed_verificatin (SpecVerify)                         *)
(***************************************************************************)
IsVerification == ret.op = "detailed_verificatin"

\* the words over the input alphabet of the object
AlphabetWords == SeqsUpTo(KeySet(inputs), MaxLen)

\* C23: an automaton verified with no message has an initial state and,
\* for every state and input symbol, a transition and an output entry, and
\* read succeeds on every word over its input alphabet; an automaton
\* without initial state or without one of the entries gets a message.
C23_VerifiedIsSafe ==
    IsVerification =>
        /\ ret.errors = <<>> =>
              /\ initial_state_ # ""
              /\ Covered(Self)
              /\ \A w \in AlphabetWords : legacy_read(Self, w).exc = ""
        /\ (initial_state_ = "" \/ ~Covered(Self)) => ret.errors # <<>>

\* What the code reports: there is no message exactly when the initial
\* state is set and the tables have no row, that is, when the constructor
\* was given no input symbol; whether the entries are set has no part in it.
C23_VerificationAsCoded ==
    IsVerification =>
        (ret.errors = <<>> <=>
            (initial_state_ # "" /\ LegacyRows(transitions_) = {}))

\* a complete automaton, on which read of the current class succeeds for
\* every word, gets messages
C23_CompleteReported ==
    /\ IsVerification /\ initial_state_ # "" /\ Covered(Self)
    /\ KeySet(inputs) # {}
    /\ ret.errors # <<>>

(***************************************************************************)
(* Properties of by_function, by_automata and curves (SpecCompute)         *)
(***************************************************************************)
IsByFunction == ret.op = "by_function"
IsByAutomata == ret.op = "by_automata"
IsCurves == ret.op = "curves"

\* the flag of the call that ended was set during its run
Cancelled == ret.op # "" /\ pending.cond

\* list is the beginning of full
IsPrefixOf(list, full) ==
    Len(list) <= Len(full) /\ list = SubSeq(full, 1, Len(list))

\* the points by_function builds when its flag is never set
FullFunction ==
    LET its == FunctionIterations(pending.args.base, pending.args.length, 0)
    IN Points([j \in DOMAIN its |->
                  padic_to_geom(its[j].num, its[j].i, pending.args.base)],
              [j \in DOMAIN its |->
                  padic_to_geom(Apply(pending.args.func, its[j].num), its[j].i,
                                pending.args.base)])

\* the curves of curves when its flag is never set, one for each input
\* symbol in the order of the ranks
FullCurves ==
    LET sorted_inputs == SortedInputs(Self)
    IN [j \in DOMAIN sorted_inputs |->
           Curve(sorted_inputs[j],
                 read(Self, Repeat(sorted_inputs[j], Cardinality(states))).out, j)]

\* the pairs pairs_generator yields for the words of length n with the
\* prefix and the terminal state of the call
PairsOfLength(n) ==
    pairs_generator(Self, n, pending.args.prefix, pending.args.last_state).list

\* the number of pairs of the word lengths 1..n
RECURSIVE PairsUpTo(_)
PairsUpTo(n) == IF n <= 0 THEN 0 ELSE PairsUpTo(n - 1) + Len(PairsOfLength(n))

\* C21: with the flag set before the first iteration, by_function and
\* by_automata return normally a result with no points.
C21_PreSetReturnsEmpty ==
    (IsByFunction \/ IsByAutomata) /\ pending.cond /\ pending.k = 0 =>
        ret.exc = "" /\ ret.x = <<>> /\ ret.y = <<>>

\* What the code does with the flag set before the first iteration:
\* by_function returns no points; by_automata returns no points when
\* range(1, length) is empty and raises TypeError at its first call of
\* pairs_generator otherwise.
C21_PreSetAsCoded ==
    /\ IsByFunction /\ pending.cond /\ pending.k = 0 =>
          ret.exc = "" /\ ret.x = <<>> /\ ret.y = <<>>
    /\ IsByAutomata /\ pending.cond /\ pending.k = 0 =>
          /\ ret.x = <<>> /\ ret.y = <<>>
          /\ ret.exc = (IF pending.args.length >= 2 THEN "TypeError" ELSE "")

\* C22: a call of by_function, by_automata or curves whose flag was set
\* during its run returns normally; its x and y have the same length and
\* begin the lists of the run that is never cancelled, and the curves of
\* curves begin the sequence of all its curves.
C22_CancelledReturnsPrefix ==
    Cancelled =>
        /\ ret.exc = ""
        /\ Len(ret.x) = Len(ret.y)
        /\ IsByFunction =>
              IsPrefixOf(ret.x, FullFunction.x) /\ IsPrefixOf(ret.y, FullFunction.y)
        /\ IsCurves => IsPrefixOf(ret.list, FullCurves)

\* The part that holds: a cancelled by_function or curves returns normally
\* with the beginning of its full result, and a run of either that is never
\* cancelled returns the full result.
C22_FunctionAndCurvesPrefix ==
    /\ IsByFunction =>
          /\ ret.exc = "" /\ Len(ret.x) = Len(ret.y)
          /\ IsPrefixOf(ret.x, FullFunction.x) /\ IsPrefixOf(ret.y, FullFunction.y)
          /\ ~pending.cond => ret.x = FullFunction.x /\ ret.y = FullFunction.y
    /\ IsCurves =>
          /\ ret.exc = ""
          /\ IsPrefixOf(ret.list, FullCurves)
          /\ ~pending.cond => ret.list = FullCurves

\* C27: once the flag is set, the next step of by_automata, which treats at
\* most one more word, is its normal return.
C27_ReturnsAtNextWord ==
    [][pending.op = "by_automata" /\ pending.cond =>
          ret'.op = "by_automata" /\ ret'.exc = ""]_vars

\* C28: by_automata with length N that is never cancelled returns normally
\* one point for every pair of the word lengths 1..N.
C28_PointsOfAllLengths ==
    IsByAutomata /\ ~pending.cond =>
        /\ ret.exc = ""
        /\ Len(ret.x) = PairsUpTo(pending.args.length)
        /\ Len(ret.y) = PairsUpTo(pending.args.length)

\* What by_automata does, cancelled or not: for a length below 2 the loop
\* over range(1, length) has no iteration and the result has no points; for
\* any other length the first call of pairs_generator raises TypeError.
C28_AutomataAsCoded ==
    IsByAutomata =>
        /\ ret.x = <<>> /\ ret.y = <<>>
        /\ ret.exc = (IF pending.args.length >= 2 THEN "TypeError" ELSE "")

(***************************************************************************)
(* Properties of Tab.start_computation and stop_computation (SpecTab)      *)
(***************************************************************************)
IsTab == pending.op = "Tab" /\ ~pending.crashed

\* the workers of the Tab that are running
RunningWorkers == {w \in DOMAIN pending.workers : isRunning(pending, w)}

\* C29: at most one worker of a Tab is running at any time.
C29_OneWorkerRunning ==
    IsTab => Cardinality(RunningWorkers) <= 1

\* C30: every running worker is the one Tab._thread refers to, so that
\* stop_computation reaches it.
C30_RunningWorkerReachable ==
    IsTab => \A w \in RunningWorkers : pending._thread = w

\* a single running worker, its function still at work, that
\* stop_computation cannot reach because on_destroyed of an earlier worker
\* reset _thread
C30_LostByOnDestroyed ==
    /\ IsTab /\ Cardinality(RunningWorkers) = 1
    /\ \A w \in RunningWorkers : pending.workers[w].state = "running"
    /\ pending._thread = 0

====
